---------------------------- MODULE Spec2Model ----------------------------
(***************************************************************************)
(* A model of the orchestration and caching core of the NEAR Catalyst      *)
(* multi-agent analyser: cache-key derivation, the per-question cache,     *)
(* the two-phase question evaluator, the six-way fan-out, the scoring      *)
(* aggregator and the per-project pipeline.                                *)
(*                                                                         *)
(* The repository holds two implementations side by side: the modular one  *)
(* (analyze_projects_multi_agent_v2.py with agents/*.py) and the earlier   *)
(* single-file one (analyze_projects_multi_agent.py).  Both are modelled;  *)
(* definitions of the single-file one carry "legacy" in their names.       *)
(*                                                                         *)
(* Python strings whose characters matter (names, operation names, keys)   *)
(* are sequences of one-character strings.  Python dicts are records; a    *)
(* key a dict does not carry is a field the record does not have.          *)
(***************************************************************************)
EXTENDS Integers, Sequences, FiniteSets, TLC

VARIABLES
    key_args,           \* inputs handed to the two cache-key functions
    key_out,            \* the keys they returned
    summary_input,      \* the question_analyses list handed to the summary agent
    summary_result,     \* the dict generate_final_summary returned
    now,                \* wall clock, in hours
    agent,              \* the QuestionAgent in use (its db_manager and usage_tracker), None when the single-file question_agent is in use
    question_research,  \* table question_research of the database
    question_analysis,  \* table question_analysis of the database
    question_analyses_table,  \* table question_analyses of the database (single-file implementation)
    last_eval,          \* the most recent question evaluation: its arguments, what it returned, its cache hits and collaborator calls
    n_evals,            \* evaluations so far
    n_ticks,            \* clock advances so far
    futures,            \* future_to_question: per question id, the state of its task and what it returned or raised
    question_results,   \* the list the as_completed loop appends to
    fan_out,            \* what the fan-out returned, None before it returns
    final_summaries,    \* rows of table final_summaries
    project_research,   \* rows of table project_research
    last_run,           \* the most recent pass over a project: its arguments, outcome and events in order
    persisted_at,       \* per project, when a pass last stored its verdict
    n_runs              \* passes so far

\* The batch run of main: the batch size, the number of the batch in progress,
\* the futures of its projects, the count process_project_batch keeps, what
\* became of every project, and the two counters of main.
VARIABLES threads, batch_num, project_futures, batch_successful, project_log,
          successful_analyses, total_processed

\* Concurrent question tasks on one QuestionAgent: the agent, the flag
\* litellm.add_function_to_prompt of the litellm module, the context of the
\* agent's usage tracker, where every task stands, and the accesses of one task
\* to what another task wrote.
VARIABLES race_agent, add_function_to_prompt, tracker_context, task_pc, interference

\* Writes to the database file: the last write made, the number of writes,
\* and the tables project_catalog and api_usage_tracking.
VARIABLES last_write, n_writes, project_catalog, api_usage_tracking

\* A run of main: which implementation runs, what it finds at its start,
\* where it stands, args.threads, the project list once fetched, the number of
\* the batch in progress, the projects being processed concurrently, and the
\* projects whose processing has ended.
VARIABLES main_legacy, main_config, main_pc, args_threads, fetched_slugs,
          main_batch_num, in_flight, analysed

\* The verdict table under passes over several projects: what the catalog
\* holds for every slug, the pass in progress over every project, the verdict
\* of the most recent completed pass over every project, and the passes begun.
VARIABLES catalog_profile, pass_of, latest_verdict, n_passes

\* The analysis parsers: the response handed to a parser, and what the
\* parser returned.
VARIABLES parse_response, parse_result

\* Evaluations observed phase by phase: the QuestionAgent, its two cache
\* tables, the clock, the most recent evaluation with what each phase returned,
\* and what the evaluation before it came to.
VARIABLES phase_agent, phase_research, phase_analysis, phase_now, last_phase,
          prev_phase

\* The cache table under concurrent stores: which implementation runs, the
\* QuestionAgent (None for the single-file implementation), the table, the
\* clock, where every storing task stands, the task holding the write lock of
\* the database (0 when free), and the most recent lookup.
VARIABLES cache_legacy, cache_agent, cache_table, cache_now, store_task,
          write_lock, last_lookup

key_vars == <<key_args, key_out>>
agg_vars == <<summary_input, summary_result>>
eval_vars == <<now, agent, question_research, question_analysis, question_analyses_table,
               last_eval, n_evals, n_ticks>>
fan_vars == <<futures, question_results, fan_out>>
orch_vars == <<final_summaries, project_research, last_run, persisted_at, n_runs>>
batch_vars == <<threads, batch_num, project_futures, batch_successful, project_log,
                successful_analyses, total_processed>>

race_vars == <<race_agent, add_function_to_prompt, tracker_context, task_pc,
               interference>>

write_vars == <<last_write, n_writes, project_catalog, api_usage_tracking>>

main_vars == <<main_legacy, main_config, main_pc, args_threads, fetched_slugs,
               main_batch_num, in_flight, analysed>>

parse_vars == <<parse_response, parse_result>>

verdict_vars == <<catalog_profile, pass_of, latest_verdict, n_passes>>

phase_vars == <<phase_agent, phase_research, phase_analysis, phase_now, last_phase,
                prev_phase>>

cache_vars == <<cache_legacy, cache_agent, cache_table, cache_now, store_task,
                write_lock, last_lookup>>

vars == <<key_vars, agg_vars, eval_vars, fan_vars, orch_vars, batch_vars, race_vars,
          write_vars, main_vars, verdict_vars, parse_vars, phase_vars, cache_vars>>

\* Python's None, and a value that is present: an optional value is a sequence
\* of length zero or one.
None == <<>>

Some(x) == <<x>>

Val(opt) == opt[1]

\* dict.get(k, default)
Get(d, k, default) == IF k \in DOMAIN d THEN d[k] ELSE default

(***************************************************************************)
(* Static configuration                                                    *)
(***************************************************************************)
DIAGNOSTIC_QUESTIONS ==
    <<
      [id |-> 1,
       key |-> <<"g","a","p","_","f","i","l","l","e","r">>,
       question |-> <<"G","a","p","-","F","i","l","l","e","r","?">>],
      [id |-> 2,
       key |-> <<"n","e","w","_","p","r","o","o","f","_","p","o","i","n","t","s">>,
       question |-> <<"N","e","w"," ","P","r","o","o","f","-","P","o","i","n","t","s","?">>],
      [id |-> 3,
       key |-> <<"c","l","e","a","r","_","s","t","o","r","y">>,
       question |-> <<"C","l","e","a","r"," ","S","t","o","r","y","?">>],
      [id |-> 4,
       key |-> <<"s","h","a","r","e","d","_","a","u","d","i","e","n","c","e","_","d","i","f","f","e","r","e","n","t","_","f","u","n","c","t","i","o","n">>,
       question |-> <<"S","h","a","r","e","d"," ","A","u","d","i","e","n","c","e",","," ","D","i","f","f","e","r","e","n","t"," ","F","u","n","c","t","i","o","n","?">>],
      [id |-> 5,
       key |-> <<"l","o","w","_","f","r","i","c","t","i","o","n","_","i","n","t","e","g","r","a","t","i","o","n">>,
       question |-> <<"L","o","w","-","F","r","i","c","t","i","o","n"," ","I","n","t","e","g","r","a","t","i","o","n","?">>],
      [id |-> 6,
       key |-> <<"h","a","n","d","s","_","o","n","_","s","u","p","p","o","r","t">>,
       question |-> <<"H","a","n","d","s","-","O","n"," ","S","u","p","p","o","r","t","?">>]
    >>

LEGACY_DIAGNOSTIC_QUESTIONS ==
    <<
      [id |-> 1,
       key |-> <<"g","a","p","_","f","i","l","l","e","r">>,
       question |-> <<"G","a","p","-","F","i","l","l","e","r","?">>],
      [id |-> 2,
       key |-> <<"n","e","w","_","p","r","o","o","f","_","p","o","i","n","t","s">>,
       question |-> <<"N","e","w"," ","P","r","o","o","f","-","P","o","i","n","t","s","?">>],
      [id |-> 3,
       key |-> <<"c","l","e","a","r","_","s","t","o","r","y">>,
       question |-> <<"O","n","e","-","S","e","n","t","e","n","c","e"," ","S","t","o","r","y","?">>],
      [id |-> 4,
       key |-> <<"d","e","v","e","l","o","p","e","r","_","f","r","i","e","n","d","l","y">>,
       question |-> <<"D","e","v","e","l","o","p","e","r","-","F","r","i","e","n","d","l","y","?">>],
      [id |-> 5,
       key |-> <<"a","l","i","g","n","e","d","_","i","n","c","e","n","t","i","v","e","s">>,
       question |-> <<"A","l","i","g","n","e","d"," ","I","n","c","e","n","t","i","v","e","s","?">>],
      [id |-> 6,
       key |-> <<"e","c","o","s","y","s","t","e","m","_","f","i","t">>,
       question |-> <<"E","c","o","s","y","s","t","e","m"," ","F","i","t","?">>]
    >>

NumQuestions == 6

QuestionIds == 1..NumQuestions

QuestionConfig(id) == DIAGNOSTIC_QUESTIONS[id]

LegacyQuestionConfig(id) == LEGACY_DIAGNOSTIC_QUESTIONS[id]

(***************************************************************************)
(* Strings                                                                 *)
(***************************************************************************)
\* Longest project name drawn for the key functions.
MaxNameLen == 2

\* Characters of drawn names: a letter in both cases and the two separators
\* the key functions use.
NameAlphabet == {"a", "A", ":", "_"}

Strs(n) == UNION {[1..k -> NameAlphabet] : k \in 0..n}

\* str.lower() on one character
LowerChar(c) ==
    CASE c = "A" -> "a"
      [] c = "B" -> "b"
      [] OTHER -> c

\* str.lower()
Lower(s) == [i \in 1..Len(s) |-> LowerChar(s[i])]

\* str(question_id) for the ids of the configuration
Digit(n) ==
    CASE n = 1 -> "1" [] n = 2 -> "2" [] n = 3 -> "3"
      [] n = 4 -> "4" [] n = 5 -> "5" [] n = 6 -> "6" [] n = 7 -> "7"
      [] OTHER -> "0"

\* f"research_q{question_id}"
ResearchOperation(id) == <<"r","e","s","e","a","r","c","h","_","q">> \o <<Digit(id)>>

\* f"analysis_q{question_id}"
AnalysisOperation(id) == <<"a","n","a","l","y","s","i","s","_","q">> \o <<Digit(id)>>

(***************************************************************************)
(* Cache keys                                                              *)
(***************************************************************************)
\* hashlib.md5(text.encode()).hexdigest(): the digest is taken as injective,
\* so it is the tagged input.
Md5HexDigest(text) == <<"md5">> \o text

\* QuestionAgent._create_cache_key
create_cache_key(operation, project_name, question_text) ==
    Md5HexDigest(operation \o <<":">> \o project_name \o <<":">> \o question_text)

\* generate_cache_key of the single-file implementation
generate_cache_key(project_name, question_key) ==
    Md5HexDigest(Lower(project_name) \o <<"_">> \o question_key)

ProjectIds == Strs(MaxNameLen)

KeyOperations ==
    {ResearchOperation(1), AnalysisOperation(1), ResearchOperation(2)} \cup Strs(1)

KeyQuestions ==
    {QuestionConfig(1).question, QuestionConfig(2).question,
     LegacyQuestionConfig(1).key, LegacyQuestionConfig(2).key} \cup Strs(1)

KeyInit ==
    /\ \E a \in [operation : KeyOperations, p1 : ProjectIds,
                  p2 : ProjectIds, question : KeyQuestions] : key_args = Some(a)
    /\ key_out = None

KeyIdle ==
    /\ key_args = None
    /\ key_out = None

\* One call of each key function for each of the two projects.
MakeKeys ==
    /\ key_args # None
    /\ key_out = None
    /\ LET a == Val(key_args) IN
         key_out' = Some(
           [agent1 |-> create_cache_key(a.operation, a.p1, a.question),
            agent2 |-> create_cache_key(a.operation, a.p2, a.question),
            legacy1 |-> generate_cache_key(a.p1, a.question),
            legacy2 |-> generate_cache_key(a.p2, a.question)])
    /\ UNCHANGED <<key_args, agg_vars, eval_vars, fan_vars, orch_vars, batch_vars, race_vars, write_vars, main_vars, verdict_vars, parse_vars, phase_vars, cache_vars>>

(***************************************************************************)
(* Scoring aggregator (SummaryAgent)                                       *)
(***************************************************************************)
StrongCandidateThreshold == 4

MixedFitThreshold == 0

RECOMMENDATIONS ==
    [strong_candidate |-> "Strong candidate; explore MoU/co-marketing",
     mixed_fit |-> "Mixed; negotiate scope",
     decline |-> "Decline or redesign the collaboration"]

\* A variant of _determine_recommendation whose upper band excludes its lower
\* bound (> where the code has >=).
determine_recommendation_exclusive(total_score) ==
    IF total_score > StrongCandidateThreshold THEN RECOMMENDATIONS.strong_candidate
    ELSE IF total_score >= MixedFitThreshold THEN RECOMMENDATIONS.mixed_fit
    ELSE RECOMMENDATIONS.decline

\* SummaryAgent._determine_recommendation
determine_recommendation(total_score) ==
    IF total_score >= StrongCandidateThreshold THEN RECOMMENDATIONS.strong_candidate
    ELSE IF total_score >= MixedFitThreshold THEN RECOMMENDATIONS.mixed_fit
    ELSE RECOMMENDATIONS.decline

\* A variant of the sum in which an entry without a score counts as -2.
RECURSIVE SumScores_penalising(_)
SumScores_penalising(question_analyses) ==
    IF question_analyses = <<>> THEN 0
    ELSE Get(Head(question_analyses), "score", 0 - 2)
             + SumScores_penalising(Tail(question_analyses))

\* sum(q.get('score', 0) for q in question_analyses)
RECURSIVE SumScores(_)
SumScores(question_analyses) ==
    IF question_analyses = <<>> THEN 0
    ELSE Get(Head(question_analyses), "score", 0) + SumScores(Tail(question_analyses))

\* SummaryAgent.generate_final_summary; synthesis_ok is whether the synthesis
\* call returned (TRUE) or raised (FALSE).
generate_final_summary(question_analyses, synthesis_ok) ==
    IF synthesis_ok
    THEN [total_score |-> SumScores(question_analyses),
          recommendation |-> determine_recommendation(SumScores(question_analyses)),
          summary |-> "summary_text",
          success |-> TRUE]
    ELSE [total_score |-> SumScores(question_analyses),
          recommendation |-> determine_recommendation(SumScores(question_analyses)),
          summary |-> "Summary generation failed",
          success |-> FALSE,
          error |-> "synthesis error"]

ScoreValues == {-1, 0, 1}

\* The result dict question id contributes to the list: a scored analysis
\* (c is its score), or the failed research dict, which carries no score (c = 2).
SummaryEntry(id, c) ==
    IF c \in ScoreValues
    THEN [question_id |-> id, score |-> c, confidence |-> "Medium", success |-> TRUE]
    ELSE [success |-> FALSE, content |-> id, error |-> "Research failed"]

AggInit ==
    /\ \E c \in [QuestionIds -> ScoreValues \cup {2}] :
         summary_input = Some([i \in QuestionIds |-> SummaryEntry(i, c[i])])
    /\ summary_result = None

AggIdle ==
    /\ summary_input = None
    /\ summary_result = None

Summarize ==
    /\ summary_input # None
    /\ summary_result = None
    /\ \E synthesis_ok \in BOOLEAN :
         summary_result' = Some(generate_final_summary(Val(summary_input), synthesis_ok))
    /\ UNCHANGED <<summary_input, key_vars, eval_vars, fan_vars, orch_vars, batch_vars, race_vars, write_vars, main_vars, verdict_vars, parse_vars, phase_vars, cache_vars>>

(***************************************************************************)
(* Cache store of QuestionAgent                                            *)
(***************************************************************************)
\* created_at > datetime('now', '-24 hours')
FreshnessHours == 24

\* json.dumps / json.loads of a result dict
JsonDumps(d) == <<"json", d>>

JsonLoads(text) == text[2]

\* A table that was never created.
NoTable == [exists |-> FALSE, rows |-> {}]

\* The WHERE clause of the SELECT in _check_cache.
FreshRow(row, cache_key, at) ==
    /\ row.cache_key = cache_key
    /\ row.created_at + FreshnessHours > at

\* _check_cache as it would be without its existence check and its except
\* branch: the SELECT would answer from whatever rows there are.
check_cache_rows_unguarded(ag, table, cache_key, at, db_ok) ==
    IF ~ag.db_manager
    THEN {}
    ELSE {row \in table.rows : FreshRow(row, cache_key, at)}

\* The rows the SELECT of _check_cache fetches: none without a db_manager, when
\* the database raises (db_ok false) or when the table does not exist.
check_cache_rows(ag, table, cache_key, at, db_ok) ==
    IF ~ag.db_manager \/ ~db_ok \/ ~table.exists
    THEN {}
    ELSE {row \in table.rows : FreshRow(row, cache_key, at)}

\* QuestionAgent._check_cache: the cached dict, or None.
check_cache(ag, table, cache_key, at, db_ok) ==
    LET rows == check_cache_rows(ag, table, cache_key, at, db_ok)
    IN  IF rows = {} THEN None
        ELSE Some(JsonLoads((CHOOSE row \in rows : TRUE).result_data))

\* A write made once inside try / except Exception: print: the statement is
\* executed a single time, and a database that is busy then (busy > 0) makes
\* it raise, which is printed and the write dropped.
single_attempt(busy) ==
    [attempts |-> 1, delays |-> <<>>, written |-> busy = 0]

\* QuestionAgent._store_cache: CREATE TABLE IF NOT EXISTS, INSERT OR REPLACE on
\* the primary key cache_key, created_at defaulting to the current time.  A
\* database error (store_ok false) is printed and the write dropped.  stored_by
\* records which evaluation wrote the row; the code stores no such column.
store_cache(ag, table, cache_key, result_data, at, store_ok, stored_by) ==
    IF ~ag.db_manager \/ ~store_ok
    THEN table
    ELSE [exists |-> TRUE,
          rows |-> {row \in table.rows : row.cache_key # cache_key}
                   \cup {[cache_key |-> cache_key,
                          result_data |-> JsonDumps(result_data),
                          created_at |-> at,
                          stored_by |-> stored_by]}]

(***************************************************************************)
(* QuestionAgent (provider 'openai')                                       *)
(***************************************************************************)
\* What the reasoning model's reply parses to.
ParsedReply(reply) ==
    IF reply = "reply_pos"
    THEN [analysis |-> "analysis text", score |-> 1, confidence |-> "High"]
    ELSE [analysis |-> "analysis text", score |-> -1, confidence |-> "Low"]

\* The dict _conduct_question_research builds when the research call raised.
ResearchFailure(question) ==
    [success |-> FALSE,
     content |-> <<"Research failed for question: ">> \o question.question,
     cost |-> 0,
     error |-> "Research failed"]

\* The dict _conduct_openai_research builds.
ResearchSuccess ==
    [success |-> TRUE, content |-> <<"research content">>, cost |-> 0,
     web_search_used |-> TRUE]

\* The dict _conduct_question_analysis returns from its except branch.
AnalysisFailure(question) ==
    [question_id |-> question.id, question |-> question.question,
     analysis |-> "Analysis failed", score |-> 0, confidence |-> "Error",
     success |-> FALSE, error |-> "Analysis failed", cost |-> 0]

\* The dict analyze returns from its except branch.
AnalyzeException(question) ==
    [question_id |-> question.id, question |-> question.question,
     analysis |-> "Analysis failed: Question analysis failed", score |-> 0,
     confidence |-> "Error", success |-> FALSE,
     error |-> "Question analysis failed", cost |-> 0]

\* The dict _conduct_question_analysis builds from the parsed reply.
AnalysisSuccess(question, parsed) ==
    [question_id |-> question.id, question |-> question.question,
     analysis |-> parsed.analysis, score |-> parsed.score,
     confidence |-> parsed.confidence, success |-> TRUE, cost |-> 0]

\* A cache hit as the evaluation saw it.
Hit(phase, row, at) ==
    [phase |-> phase, stored_by |-> row.stored_by, created_at |-> row.created_at,
     at |-> at]

Writer(project_name, question, phase) ==
    [project_name |-> project_name, question_id |-> question.id, phase |-> phase]

\* self.usage_tracker.set_context(...) raises AttributeError when the object
\* held as usage_tracker is a DatabaseManager.
SetContextRaises(ag) == ag.usage_tracker = "DatabaseManager"

\* _conduct_question_research as it would be if _store_cache let a database
\* error out: the error would leave the except branch of the research phase and
\* reach the except branch of analyze.
conduct_question_research_propagating(ag, table, project_name, question, env, at) ==
    LET cache_key == create_cache_key(ResearchOperation(question.id), project_name,
                                      question.question)
        rows == check_cache_rows(ag, table, cache_key, at, env.db_ok)
        cached == check_cache(ag, table, cache_key, at, env.db_ok)
        stored_by == Writer(project_name, question, "research")
        computed == IF SetContextRaises(ag) \/ env.research_call = "raise"
                    THEN ResearchFailure(question)
                    ELSE ResearchSuccess
    IN  IF cached # None
        THEN [result |-> Val(cached), table |-> table, calls |-> {},
              hits |-> {Hit("research", row, at) : row \in rows}]
        ELSE [result |-> IF ag.db_manager /\ ~env.store_ok
                         THEN AnalyzeException(question)
                         ELSE computed,
              table |-> store_cache(ag, table, cache_key, computed, at, env.store_ok,
                                    stored_by),
              calls |-> IF SetContextRaises(ag) THEN {} ELSE {"research"},
              hits |-> {}]

\* QuestionAgent._conduct_question_research with _conduct_openai_research.
\* Yields the dict returned, the table afterwards, the collaborator calls made
\* and the cache hits.
conduct_question_research(ag, table, project_name, question, env, at) ==
    LET cache_key == create_cache_key(ResearchOperation(question.id), project_name,
                                      question.question)
        rows == check_cache_rows(ag, table, cache_key, at, env.db_ok)
        cached == check_cache(ag, table, cache_key, at, env.db_ok)
        stored_by == Writer(project_name, question, "research")
    IN  IF cached # None
        THEN [result |-> Val(cached), table |-> table, calls |-> {},
              hits |-> {Hit("research", row, at) : row \in rows}]
        ELSE IF SetContextRaises(ag)
        THEN [result |-> ResearchFailure(question),
              table |-> store_cache(ag, table, cache_key, ResearchFailure(question),
                                    at, env.store_ok, stored_by),
              calls |-> {}, hits |-> {}]
        ELSE IF env.research_call = "raise"
        THEN [result |-> ResearchFailure(question),
              table |-> store_cache(ag, table, cache_key, ResearchFailure(question),
                                    at, env.store_ok, stored_by),
              calls |-> {"research"}, hits |-> {}]
        ELSE [result |-> ResearchSuccess,
              table |-> store_cache(ag, table, cache_key, ResearchSuccess,
                                    at, env.store_ok, stored_by),
              calls |-> {"research"}, hits |-> {}]

\* _conduct_question_analysis as it would be if its except branch stored the
\* failure dict the way the research phase does.
conduct_question_analysis_caching_failures(ag, table, project_name, question, env, at) ==
    LET cache_key == create_cache_key(AnalysisOperation(question.id), project_name,
                                      question.question)
        rows == check_cache_rows(ag, table, cache_key, at, env.db_ok)
        cached == check_cache(ag, table, cache_key, at, env.db_ok)
        stored_by == Writer(project_name, question, "analysis")
        failed == env.analysis_call = "raise" \/ SetContextRaises(ag)
        computed == IF failed THEN AnalysisFailure(question)
                    ELSE AnalysisSuccess(question, ParsedReply(env.analysis_call))
    IN  IF cached # None
        THEN [raised |-> FALSE, result |-> Val(cached), table |-> table, calls |-> {},
              hits |-> {Hit("analysis", row, at) : row \in rows}]
        ELSE IF env.analysis_call = "prompt_error"
        THEN [raised |-> TRUE, result |-> AnalysisFailure(question), table |-> table,
              calls |-> {}, hits |-> {}]
        ELSE [raised |-> FALSE, result |-> computed,
              table |-> store_cache(ag, table, cache_key, computed, at, env.store_ok,
                                    stored_by),
              calls |-> IF SetContextRaises(ag) THEN {} ELSE {"analysis"},
              hits |-> {}]

\* QuestionAgent._conduct_question_analysis.  raised is TRUE when building the
\* prompt raised, which happens before the method's own try block.
conduct_question_analysis(ag, table, project_name, question, env, at) ==
    LET cache_key == create_cache_key(AnalysisOperation(question.id), project_name,
                                      question.question)
        rows == check_cache_rows(ag, table, cache_key, at, env.db_ok)
        cached == check_cache(ag, table, cache_key, at, env.db_ok)
        stored_by == Writer(project_name, question, "analysis")
        done == AnalysisSuccess(question, ParsedReply(env.analysis_call))
    IN  IF cached # None
        THEN [raised |-> FALSE, result |-> Val(cached), table |-> table, calls |-> {},
              hits |-> {Hit("analysis", row, at) : row \in rows}]
        ELSE IF env.analysis_call = "prompt_error"
        THEN [raised |-> TRUE, result |-> AnalysisFailure(question), table |-> table,
              calls |-> {}, hits |-> {}]
        ELSE IF SetContextRaises(ag)
        THEN [raised |-> FALSE, result |-> AnalysisFailure(question), table |-> table,
              calls |-> {}, hits |-> {}]
        ELSE IF env.analysis_call = "raise"
        THEN [raised |-> FALSE, result |-> AnalysisFailure(question), table |-> table,
              calls |-> {"analysis"}, hits |-> {}]
        ELSE [raised |-> FALSE, result |-> done,
              table |-> store_cache(ag, table, cache_key, done, at, env.store_ok,
                                    stored_by),
              calls |-> {"analysis"}, hits |-> {}]

\* analyze as it would be without "if not research_result['success']: return
\* research_result": the analysis phase would run on the content of a failed
\* research.
analyze_without_short_circuit(ag, research_table, analysis_table, project_name, question, env, at) ==
    LET r == conduct_question_research(ag, research_table, project_name, question,
                                       env, at)
        a == conduct_question_analysis(ag, analysis_table, project_name, question,
                                       env, at)
    IN  [result |-> IF a.raised THEN AnalyzeException(question) ELSE a.result,
         research_table |-> r.table, analysis_table |-> a.table,
         calls |-> r.calls \cup a.calls, hits |-> r.hits \cup a.hits]

\* QuestionAgent.analyze
analyze(ag, research_table, analysis_table, project_name, question, env, at) ==
    LET r == conduct_question_research(ag, research_table, project_name, question,
                                       env, at)
        a == conduct_question_analysis(ag, analysis_table, project_name, question,
                                       env, at)
    IN  IF ~r.result.success
        THEN [result |-> r.result, research_table |-> r.table,
              analysis_table |-> analysis_table, calls |-> r.calls, hits |-> r.hits]
        ELSE IF a.raised
        THEN [result |-> AnalyzeException(question), research_table |-> r.table,
              analysis_table |-> a.table, calls |-> r.calls \cup a.calls,
              hits |-> r.hits \cup a.hits]
        ELSE [result |-> a.result, research_table |-> r.table,
              analysis_table |-> a.table, calls |-> r.calls \cup a.calls,
              hits |-> r.hits \cup a.hits]

(***************************************************************************)
(* question_agent of the single-file implementation                        *)
(***************************************************************************)
\* max_retries of the cache write
LegacyMaxRetries == 3

\* The base of the sleep between attempts, time.sleep(0.1 * (attempt + 1)),
\* in tenths of a second.
LegacyRetryBackoffTenths == 1

\* for attempt in range(max_retries): the INSERT OR REPLACE succeeds and the
\* loop breaks, or it meets "database is locked" (the first busy attempts do)
\* and the loop sleeps and continues, or, on the last attempt, prints and
\* breaks.  Yields the attempts made, the sleeps and whether the row is written.
RECURSIVE legacy_cache_insert(_, _, _)
legacy_cache_insert(attempt, busy, delays) ==
    IF attempt >= LegacyMaxRetries
    THEN [attempts |-> attempt, delays |-> delays, written |-> FALSE]
    ELSE IF attempt >= busy
    THEN [attempts |-> attempt + 1, delays |-> delays, written |-> TRUE]
    ELSE IF attempt < LegacyMaxRetries - 1
    THEN legacy_cache_insert(attempt + 1, busy,
                             Append(delays, LegacyRetryBackoffTenths * (attempt + 1)))
    ELSE [attempts |-> attempt + 1, delays |-> delays, written |-> FALSE]

\* The dict question_agent returns when a call or the database raised inside
\* its try block.
LegacyFailure(question) ==
    [question_id |-> question.id, research_data |-> <<"Research failed">>,
     sources |-> <<>>, analysis |-> "Analysis failed", score |-> 0,
     confidence |-> "Low", error |-> "error", cached |-> FALSE]

\* The research text asked for with 'For the project "{project_name}", research ...'
LegacyResearch(project_name) == <<"research on ">> \o project_name

\* question_agent: connect (outside the try block, so a failure raises to the
\* caller), look the key up without any age condition, research, analyse,
\* INSERT OR REPLACE with up to max_retries attempts while the database is
\* locked (env.busy attempts meet the lock), commit.
legacy_question_agent(table, project_name, question, env, at) ==
    LET cache_key == generate_cache_key(project_name, question.key)
        rows == {row \in table.rows : row.cache_key = cache_key}
        parsed == ParsedReply(env.analysis_call)
        new_row == [cache_key |-> cache_key, project_name |-> project_name,
                    question_id |-> question.id,
                    research_data |-> LegacyResearch(project_name),
                    analysis |-> parsed.analysis, score |-> parsed.score,
                    confidence |-> parsed.confidence, created_at |-> at]
    IN  IF ~env.connect_ok
        THEN [raised |-> TRUE, result |-> None, table |-> table, calls |-> {},
              hits |-> {}]
        ELSE IF rows # {}
        THEN LET row == CHOOSE row \in rows : TRUE
             IN  [raised |-> FALSE,
                  result |-> Some([question_id |-> question.id,
                                   research_data |-> row.research_data,
                                   sources |-> <<>>, analysis |-> row.analysis,
                                   score |-> row.score,
                                   confidence |-> row.confidence, cached |-> TRUE]),
                  table |-> table, calls |-> {},
                  hits |-> {[phase |-> "legacy",
                             stored_by |-> [project_name |-> row.project_name,
                                            question_id |-> row.question_id,
                                            phase |-> "legacy"],
                             created_at |-> row.created_at, at |-> at]}]
        ELSE IF env.research_call = "raise"
        THEN [raised |-> FALSE, result |-> Some(LegacyFailure(question)),
              table |-> table, calls |-> {"research"}, hits |-> {}]
        ELSE IF env.analysis_call = "raise"
        THEN [raised |-> FALSE, result |-> Some(LegacyFailure(question)),
              table |-> table, calls |-> {"research", "analysis"}, hits |-> {}]
        ELSE [raised |-> FALSE,
              result |-> Some([question_id |-> question.id,
                               research_data |-> LegacyResearch(project_name),
                               sources |-> <<>>, analysis |-> parsed.analysis,
                               score |-> parsed.score,
                               confidence |-> parsed.confidence, cached |-> FALSE]),
              table |-> IF legacy_cache_insert(0, env.busy, <<>>).written
                        THEN [exists |-> TRUE,
                              rows |-> {row \in table.rows : row.cache_key # cache_key}
                                       \cup {new_row}]
                        ELSE table,
              calls |-> {"research", "analysis"}, hits |-> {}]

(***************************************************************************)
(* Question evaluations over one database                                  *)
(***************************************************************************)
\* Evaluations in one run of the evaluator model.
MaxEvals == 2

\* Clock advances in one run of the evaluator model.
MaxTicks == 3

\* Questions 1..MaxEvalQuestion are evaluated in the evaluator model.
MaxEvalQuestion == 2

\* Hours by which the clock advances in one step.
TickHours == {1, 23}

\* Project names of the evaluator model.
EvalProjects == {<<"A">>, <<"a">>, <<"a", ":">>}

\* The ways a QuestionAgent is constructed: with a db_manager and a usage
\* tracker, with a db_manager alone, and as run_parallel_question_analysis
\* constructs it, QuestionAgent(None, db_manager), which binds None to
\* db_manager and the DatabaseManager to usage_tracker.
AgentWirings ==
    {[db_manager |-> TRUE, usage_tracker |-> "APIUsageTracker"],
     [db_manager |-> TRUE, usage_tracker |-> "None"],
     [db_manager |-> FALSE, usage_tracker |-> "DatabaseManager"]}

AgentEnvs ==
    [db_ok : BOOLEAN, store_ok : BOOLEAN, research_call : {"ok", "raise"},
     analysis_call : {"prompt_error", "raise", "reply_pos", "reply_neg"}]

LegacyEnvs ==
    [connect_ok : BOOLEAN, research_call : {"ok", "raise"},
     analysis_call : {"raise", "reply_pos", "reply_neg"}, busy : {0, 1, 3}]

EvalInit ==
    /\ now = 0
    /\ agent \in {Some(w) : w \in AgentWirings} \cup {None}
    /\ question_research = NoTable
    /\ question_analysis = NoTable
    /\ question_analyses_table = [exists |-> TRUE, rows |-> {}]
    /\ last_eval = None
    /\ n_evals = 0
    /\ n_ticks = 0

EvalIdle ==
    /\ now = 0
    /\ agent = None
    /\ question_research = NoTable
    /\ question_analysis = NoTable
    /\ question_analyses_table = NoTable
    /\ last_eval = None
    /\ n_evals = 0
    /\ n_ticks = 0

\* Time passes.
Tick ==
    /\ n_ticks < MaxTicks
    /\ \E h \in TickHours : now' = now + h
    /\ n_ticks' = n_ticks + 1
    /\ UNCHANGED <<agent, question_research, question_analysis, question_analyses_table,
                   last_eval, n_evals, key_vars, agg_vars, fan_vars, orch_vars, batch_vars, race_vars, write_vars, main_vars, verdict_vars, parse_vars, phase_vars, cache_vars>>

\* One call of QuestionAgent.analyze.
EvaluateQuestion ==
    /\ agent # None
    /\ n_evals < MaxEvals
    /\ \E project_name \in EvalProjects, id \in 1..MaxEvalQuestion, env \in AgentEnvs :
         LET out == analyze(Val(agent), question_research, question_analysis,
                            project_name, QuestionConfig(id), env, now)
         IN  /\ question_research' = out.research_table
             /\ question_analysis' = out.analysis_table
             /\ last_eval' = Some([project_name |-> project_name, question_id |-> id,
                                   raised |-> FALSE, result |-> Some(out.result),
                                   calls |-> out.calls, hits |-> out.hits])
    /\ n_evals' = n_evals + 1
    /\ UNCHANGED <<now, agent, question_analyses_table, n_ticks, key_vars, agg_vars,
                   fan_vars, orch_vars, batch_vars, race_vars, write_vars, main_vars, verdict_vars, parse_vars, phase_vars, cache_vars>>

\* One call of question_agent of the single-file implementation.
LegacyEvaluateQuestion ==
    /\ agent = None
    /\ n_evals < MaxEvals
    /\ \E project_name \in EvalProjects, id \in 1..MaxEvalQuestion, env \in LegacyEnvs :
         LET out == legacy_question_agent(question_analyses_table, project_name,
                                          LegacyQuestionConfig(id), env, now)
         IN  /\ question_analyses_table' = out.table
             /\ last_eval' = Some([project_name |-> project_name, question_id |-> id,
                                   raised |-> out.raised, result |-> out.result,
                                   calls |-> out.calls, hits |-> out.hits])
    /\ n_evals' = n_evals + 1
    /\ UNCHANGED <<now, agent, question_research, question_analysis, n_ticks,
                   key_vars, agg_vars, fan_vars, orch_vars, batch_vars, race_vars, write_vars, main_vars, verdict_vars, parse_vars, phase_vars, cache_vars>>

(***************************************************************************)
(* The six-way fan-out: run_parallel_question_analysis, and the same loop  *)
(* in main of the single-file implementation                               *)
(***************************************************************************)
\* future.result(timeout=180): seconds
ResultTimeoutSeconds == 180

\* Question tasks of one fan-out that meet a fault (raise, report a failure,
\* run past the result timeout or never finish).
MaxFaults == 1

\* Seconds a question task runs before it finishes.
TaskSeconds == {60, 240}

\* The project of the fan-out model.
FanProject == <<"A">>

\* QuestionAgent(None, db_manager): None is bound to db_manager and the
\* DatabaseManager to usage_tracker.
FanAgent == [db_manager |-> FALSE, usage_tracker |-> "DatabaseManager"]

\* A future just submitted to the executor.
Submitted ==
    [state |-> "running", raised |-> FALSE, value |-> None, seconds |-> 0,
     faulty |-> FALSE]

\* The record appended in the except concurrent.futures.TimeoutError branch.
SyntheticTimeout(question_config) ==
    [question_id |-> question_config.id, research_data |-> <<"Analysis timed out">>,
     sources |-> <<>>, analysis |-> "Analysis timed out", score |-> 0,
     confidence |-> "Low", error |-> "Timeout", cached |-> FALSE]

\* The record appended in the except Exception branch.
SyntheticError(question_config) ==
    [question_id |-> question_config.id, research_data |-> <<"Analysis failed">>,
     sources |-> <<>>, analysis |-> "Analysis failed", score |-> 0,
     confidence |-> "Low", error |-> "exception", cached |-> FALSE]

\* future.result(timeout=180) on a future that as_completed has yielded: the
\* future is done, so the call returns its value or re-raises its exception
\* at once, however long the task ran.
future_result(future) ==
    IF future.raised THEN [kind |-> "exception", value |-> None]
    ELSE [kind |-> "result", value |-> future.value]

\* A variant of the loop body that drops what it collected so far when a task
\* raised.
collect_dropping(results, question_config, outcome) ==
    IF outcome.kind = "result" THEN Append(results, Val(outcome.value))
    ELSE IF outcome.kind = "timeout"
    THEN Append(results, SyntheticTimeout(question_config))
    ELSE <<SyntheticError(question_config)>>

\* The body of the as_completed loop: try / except TimeoutError / except Exception.
collect(results, question_config, outcome) ==
    IF outcome.kind = "result" THEN Append(results, Val(outcome.value))
    ELSE IF outcome.kind = "timeout"
    THEN Append(results, SyntheticTimeout(question_config))
    ELSE Append(results, SyntheticError(question_config))

\* lambda x: x.get('question_id', 0)
SortKey(x) == Get(x, "question_id", 0)

\* x put behind every entry of the sorted list s whose key is not greater.
RECURSIVE InsertByKey(_, _)
InsertByKey(x, s) ==
    IF s = <<>> THEN <<x>>
    ELSE IF SortKey(s[Len(s)]) <= SortKey(x) THEN Append(s, x)
    ELSE Append(InsertByKey(x, SubSeq(s, 1, Len(s) - 1)), s[Len(s)])

\* question_results.sort(key=...): a stable sort.
RECURSIVE SortByQuestionId(_)
SortByQuestionId(l) ==
    IF l = <<>> THEN <<>>
    ELSE InsertByKey(l[Len(l)], SortByQuestionId(SubSeq(l, 1, Len(l) - 1)))

Faults(fs) == Cardinality({q \in QuestionIds : fs[q].faulty})

FanAgentEnvs ==
    {env \in AgentEnvs : env.db_ok /\ env.store_ok /\ env.analysis_call = "reply_pos"}

FanLegacyEnvs ==
    {env \in LegacyEnvs : env.analysis_call = "reply_pos" /\ env.busy = 0}

FanInit ==
    /\ futures = [q \in QuestionIds |-> Submitted]
    /\ question_results = <<>>
    /\ fan_out = None

FanIdle ==
    /\ futures = <<>>
    /\ question_results = <<>>
    /\ fan_out = None

\* A QuestionAgent.analyze task finishes and the as_completed loop of
\* run_parallel_question_analysis takes its future.
QuestionTaskCompletes ==
    /\ agent # None
    /\ fan_out = None
    /\ \E q \in QuestionIds, env \in FanAgentEnvs, seconds \in TaskSeconds :
         LET out == analyze(Val(agent), question_research, question_analysis,
                            FanProject, QuestionConfig(q), env, now)
             faulty == env.research_call = "raise" \/ seconds > ResultTimeoutSeconds
             future == [state |-> "finished", raised |-> FALSE,
                        value |-> Some(out.result), seconds |-> seconds,
                        faulty |-> faulty]
         IN  /\ futures[q].state = "running"
             /\ faulty => Faults(futures) < MaxFaults
             /\ futures' = [futures EXCEPT ![q] = future]
             /\ question_research' = out.research_table
             /\ question_analysis' = out.analysis_table
             /\ question_results' = collect(question_results, QuestionConfig(q),
                                            future_result(future))
    /\ UNCHANGED <<now, agent, question_analyses_table, last_eval, n_evals, n_ticks,
                   fan_out, key_vars, agg_vars, orch_vars, batch_vars, race_vars, write_vars, main_vars, verdict_vars, parse_vars, phase_vars, cache_vars>>

\* A question_agent task of the single-file implementation finishes and the
\* as_completed loop of main takes its future.
LegacyQuestionTaskCompletes ==
    /\ agent = None
    /\ fan_out = None
    /\ \E q \in QuestionIds, env \in FanLegacyEnvs, seconds \in TaskSeconds :
         LET out == legacy_question_agent(question_analyses_table, FanProject,
                                          LegacyQuestionConfig(q), env, now)
             faulty == \/ ~env.connect_ok
                       \/ env.research_call = "raise"
                       \/ seconds > ResultTimeoutSeconds
             future == [state |-> "finished", raised |-> out.raised,
                        value |-> out.result, seconds |-> seconds,
                        faulty |-> faulty]
         IN  /\ futures[q].state = "running"
             /\ faulty => Faults(futures) < MaxFaults
             /\ futures' = [futures EXCEPT ![q] = future]
             /\ question_analyses_table' = out.table
             /\ question_results' = collect(question_results, LegacyQuestionConfig(q),
                                            future_result(future))
    /\ UNCHANGED <<now, agent, question_research, question_analysis, last_eval,
                   n_evals, n_ticks, fan_out, key_vars, agg_vars, orch_vars, batch_vars, race_vars, write_vars, main_vars, verdict_vars, parse_vars, phase_vars, cache_vars>>

\* A question task blocks for good (a call that never returns): its future
\* never completes.
QuestionTaskHangs ==
    /\ fan_out = None
    /\ \E q \in QuestionIds :
         /\ futures[q].state = "running"
         /\ Faults(futures) < MaxFaults
         /\ futures' = [futures EXCEPT ![q] = [@ EXCEPT !.state = "hung",
                                                         !.faulty = TRUE]]
    /\ UNCHANGED <<question_results, fan_out, eval_vars, key_vars, agg_vars, orch_vars, batch_vars, race_vars, write_vars, main_vars, verdict_vars, parse_vars, phase_vars, cache_vars>>

\* as_completed has yielded every future and the executor has shut down: the
\* results are sorted and returned.
ReturnQuestionResults ==
    /\ fan_out = None
    /\ \A q \in QuestionIds : futures[q].state = "finished"
    /\ fan_out' = Some(SortByQuestionId(question_results))
    /\ UNCHANGED <<futures, question_results, eval_vars, key_vars, agg_vars, orch_vars, batch_vars, race_vars, write_vars, main_vars, verdict_vars, parse_vars, phase_vars, cache_vars>>

(***************************************************************************)
(* The per-project pipeline: process_single_project_wrapper with           *)
(* analyze_single_project, and one iteration of the project loop of main   *)
(* of the single-file implementation.  Both work on the database file      *)
(* project_analyses_multi_agent.db.                                        *)
(***************************************************************************)
\* timedelta(hours=24) of the skip check
SkipFreshnessHours == 24

\* Passes over a project in one run of the pipeline model.
MaxRuns == 2

\* Project slugs of the pipeline model; the catalog's profile name of a
\* project is taken to be its slug.
OrchProjects == {<<"A">>}

\* Command-line flags of a pass: at most one of --force-refresh,
\* --research-only and --questions-only is given.
OrchArgs ==
    {args \in [force_refresh : BOOLEAN, research_only : BOOLEAN,
               questions_only : BOOLEAN] :
        Cardinality({f \in {"force_refresh", "research_only", "questions_only"} :
                        \/ f = "force_refresh" /\ args.force_refresh
                        \/ f = "research_only" /\ args.research_only
                        \/ f = "questions_only" /\ args.questions_only}) <= 1}

\* What the collaborators and the database do during one pass: all is well
\* and every reply is positive, or one of them deviates.
OrchEnvs ==
    {env \in [catalog_ok : BOOLEAN, db_ok : BOOLEAN, research_call : {"ok", "raise"},
              analysis_call : {"reply_pos", "reply_neg"}, summary_ok : BOOLEAN] :
        Cardinality({d \in {"catalog", "db", "research", "analysis", "summary"} :
                        \/ d = "catalog" /\ ~env.catalog_ok
                        \/ d = "db" /\ ~env.db_ok
                        \/ d = "research" /\ env.research_call = "raise"
                        \/ d = "analysis" /\ env.analysis_call = "reply_neg"
                        \/ d = "summary" /\ ~env.summary_ok}) <= 1}

\* A variant of the skip check that takes a verdict for recent when it is old.
should_skip_project_stale(final_rows, project_name, force_refresh, at, db_ok) ==
    IF force_refresh THEN FALSE
    ELSE IF ~db_ok THEN FALSE
    ELSE \E row \in final_rows :
            /\ row.project_name = project_name
            /\ row.updated_at < at - SkipFreshnessHours

\* A variant of the skip check that takes only a verdict whose synthesis
\* succeeded for a reason to skip.
should_skip_project_successful_only(final_rows, project_name, force_refresh, at, db_ok) ==
    IF force_refresh THEN FALSE
    ELSE IF ~db_ok THEN FALSE
    ELSE \E row \in final_rows :
            /\ row.project_name = project_name
            /\ row.success
            /\ row.updated_at > at - SkipFreshnessHours

\* should_skip_project: False under force_refresh, True when final_summaries
\* holds a row of the project with updated_at > now - 24 hours, False when the
\* database raises.
should_skip_project(final_rows, project_name, force_refresh, at, db_ok) ==
    IF force_refresh THEN FALSE
    ELSE IF ~db_ok THEN FALSE
    ELSE \E row \in final_rows :
            /\ row.project_name = project_name
            /\ row.updated_at > at - SkipFreshnessHours

\* ResearchAgent.__init__(self, client): the call raises TypeError unless it
\* is given exactly one argument.
research_agent_init(arguments) ==
    IF Len(arguments) = 1 THEN [raised |-> FALSE, client |-> arguments[1]]
    ELSE [raised |-> TRUE, client |-> "None"]

\* process_single_project_wrapper followed by analyze_single_project up to
\* ResearchAgent(None, db_manager).  That call is given two arguments, raises
\* inside the try block and makes analyze_single_project return False, so the
\* statements after it are not reached.
process_single_project(final_rows, slug, args, env, at) ==
    IF ~env.catalog_ok
    THEN [outcome |-> "FAILED", events |-> <<"catalog">>]
    ELSE IF should_skip_project(final_rows, slug, args.force_refresh, at, env.db_ok)
    THEN [outcome |-> "SKIPPED", events |-> <<"catalog">>]
    ELSE IF ~env.db_ok \/ research_agent_init(<<"None", "db_manager">>).raised
    THEN [outcome |-> "FAILED", events |-> <<"catalog">>]
    ELSE [outcome |-> "RESEARCHING", events |-> <<"catalog">>]

\* The recommendation main of the single-file implementation derives from the
\* total score.
LegacyRecommendation(total_score) ==
    IF total_score >= 4 THEN "Green-light partnership"
    ELSE IF total_score >= 0 THEN "Solid mid-tier fit"
    ELSE "Likely misaligned"

\* A variant of the question stage that hands over after five questions.
RECURSIVE LegacyQuestionStage_short(_, _, _, _, _, _)
LegacyQuestionStage_short(q, table, results, events, project_name, ctx) ==
    IF q >= NumQuestions
    THEN [results |-> SortByQuestionId(results), table |-> table, events |-> events]
    ELSE LET env == [connect_ok |-> TRUE, research_call |-> "ok",
                     analysis_call |-> ctx.analysis_call, busy |-> 0]
             out == legacy_question_agent(table, project_name,
                                          LegacyQuestionConfig(q), env, ctx.at)
             future == [raised |-> out.raised, value |-> out.result]
             made == IF out.calls = {} THEN <<>> ELSE <<"question", "store_question">>
         IN  LegacyQuestionStage_short(q + 1, out.table,
                                       collect(results, LegacyQuestionConfig(q),
                                               future_result(future)),
                                       events \o made \o <<"settled">>,
                                       project_name, ctx)

\* The six question_agent tasks of one project, taken in question order, and
\* the loop that collects them: the list collected, the cache table afterwards
\* and the events (a cache hit makes no call and no write; "settled" is the
\* collection of a task's result).
RECURSIVE LegacyQuestionStage(_, _, _, _, _, _)
LegacyQuestionStage(q, table, results, events, project_name, ctx) ==
    IF q > NumQuestions
    THEN [results |-> SortByQuestionId(results), table |-> table, events |-> events]
    ELSE LET env == [connect_ok |-> TRUE, research_call |-> "ok",
                     analysis_call |-> ctx.analysis_call, busy |-> 0]
             out == legacy_question_agent(table, project_name,
                                          LegacyQuestionConfig(q), env, ctx.at)
             future == [raised |-> out.raised, value |-> out.result]
             made == IF out.calls = {} THEN <<>> ELSE <<"question", "store_question">>
         IN  LegacyQuestionStage(q + 1, out.table,
                                 collect(results, LegacyQuestionConfig(q),
                                         future_result(future)),
                                 events \o made \o <<"settled">>, project_name, ctx)

\* An INSERT OR REPLACE keyed by project_name.
UpsertByProject(rows, row) ==
    {r \in rows : r.project_name # row.project_name} \cup {row}

\* One iteration of the project loop of main: fetch the project's details,
\* check for a recent verdict, research, six questions, summary, store.
legacy_process_project(db, slug, args, env, at) ==
    LET unchanged == [final_summaries |-> db.final_summaries,
                      project_research |-> db.project_research,
                      question_analyses |-> db.question_analyses]
        skip == /\ ~args.force_refresh
                /\ \E row \in db.final_summaries :
                       /\ row.project_name = slug
                       /\ row.updated_at > at - SkipFreshnessHours
        research_row == [project_name |-> slug,
                         success |-> env.research_call = "ok", updated_at |-> at]
        researched == [unchanged EXCEPT !.project_research =
                                            UpsertByProject(@, research_row)]
        stage == LegacyQuestionStage(1, db.question_analyses, <<>>, <<>>, slug,
                                     [analysis_call |-> env.analysis_call, at |-> at])
        questioned == [researched EXCEPT !.question_analyses = stage.table]
        total_score == SumScores(stage.results)
        verdict == [project_name |-> slug, total_score |-> total_score,
                    recommendation |-> LegacyRecommendation(total_score),
                    success |-> env.summary_ok, updated_at |-> at]
    IN  IF ~env.catalog_ok
        THEN [outcome |-> "FAILED", events |-> <<"catalog">>, db |-> unchanged]
        ELSE IF ~args.force_refresh /\ ~env.db_ok
        THEN [outcome |-> "RAISED", events |-> <<"catalog">>, db |-> unchanged]
        ELSE IF skip
        THEN [outcome |-> "SKIPPED", events |-> <<"catalog">>, db |-> unchanged]
        ELSE IF ~env.db_ok
        THEN [outcome |-> "RAISED", events |-> <<"catalog", "research">>,
              db |-> unchanged]
        ELSE IF args.research_only
        THEN [outcome |-> "RESEARCH_ONLY",
              events |-> <<"catalog", "research", "store_research">>,
              db |-> researched]
        ELSE IF args.questions_only
        THEN [outcome |-> "QUESTIONS_ONLY",
              events |-> <<"catalog", "research", "store_research">> \o stage.events,
              db |-> questioned]
        ELSE [outcome |-> "PERSISTED",
              events |-> <<"catalog", "research", "store_research">> \o stage.events
                         \o <<"summary", "store_verdict">>,
              db |-> [questioned EXCEPT !.final_summaries =
                                            UpsertByProject(@, verdict)]]

\* Hours by which the clock advances between passes.
PassGapHours == {12}

\* Time passes between two passes.
PassGap ==
    /\ n_ticks < MaxTicks
    /\ \E h \in PassGapHours : now' = now + h
    /\ n_ticks' = n_ticks + 1
    /\ UNCHANGED <<agent, question_research, question_analysis, question_analyses_table,
                   last_eval, n_evals, key_vars, agg_vars, fan_vars, orch_vars, batch_vars, race_vars, write_vars, main_vars, verdict_vars, parse_vars, phase_vars, cache_vars>>

OrchInit ==
    /\ final_summaries = {}
    /\ project_research = {}
    /\ last_run = None
    /\ persisted_at = [slug \in OrchProjects |-> None]
    /\ n_runs = 0

OrchIdle ==
    /\ final_summaries = {}
    /\ project_research = {}
    /\ last_run = None
    /\ persisted_at = <<>>
    /\ n_runs = 0

\* One project goes through process_single_project_wrapper.
ProcessSingleProject ==
    /\ n_runs < MaxRuns
    /\ \E slug \in OrchProjects, args \in OrchArgs, env \in OrchEnvs :
         LET out == process_single_project(final_summaries, slug, args, env, now)
         IN  last_run' = Some([legacy |-> FALSE, slug |-> slug, args |-> args,
                               catalog_ok |-> env.catalog_ok, db_ok |-> env.db_ok,
                               research_call |-> env.research_call,
                               analysis_call |-> env.analysis_call,
                               summary_ok |-> env.summary_ok,
                               at |-> now, outcome |-> out.outcome,
                               events |-> out.events,
                               persisted_before |-> persisted_at[slug]])
    /\ n_runs' = n_runs + 1
    /\ UNCHANGED <<final_summaries, project_research, persisted_at, now, agent,
                   question_research, question_analysis, question_analyses_table,
                   last_eval, n_evals, n_ticks, key_vars, agg_vars, fan_vars, batch_vars, race_vars, write_vars, main_vars, verdict_vars, parse_vars, phase_vars, cache_vars>>

\* One project goes through the project loop of main of the single-file
\* implementation.
LegacyProcessProject ==
    /\ n_runs < MaxRuns
    /\ \E slug \in OrchProjects, args \in OrchArgs, env \in OrchEnvs :
         LET out == legacy_process_project(
                        [final_summaries |-> final_summaries,
                         project_research |-> project_research,
                         question_analyses |-> question_analyses_table],
                        slug, args, env, now)
         IN  /\ final_summaries' = out.db.final_summaries
             /\ project_research' = out.db.project_research
             /\ question_analyses_table' = out.db.question_analyses
             /\ persisted_at' = IF out.outcome = "PERSISTED"
                                THEN [persisted_at EXCEPT ![slug] = Some(now)]
                                ELSE persisted_at
             /\ last_run' = Some([legacy |-> TRUE, slug |-> slug, args |-> args,
                                  catalog_ok |-> env.catalog_ok, db_ok |-> env.db_ok,
                                  research_call |-> env.research_call,
                                  analysis_call |-> env.analysis_call,
                                  summary_ok |-> env.summary_ok,
                                  at |-> now, outcome |-> out.outcome,
                                  events |-> out.events,
                                  persisted_before |-> persisted_at[slug]])
    /\ n_runs' = n_runs + 1
    /\ UNCHANGED <<now, agent, question_research, question_analysis, last_eval,
                   n_evals, n_ticks, key_vars, agg_vars, fan_vars, batch_vars, race_vars, write_vars, main_vars, verdict_vars, parse_vars, phase_vars, cache_vars>>

(***************************************************************************)
(* The batch run: main splits the project slugs into batches and           *)
(* process_project_batch runs the projects of a batch concurrently         *)
(***************************************************************************)
\* future.result(timeout=300): seconds
ProjectTimeoutSeconds == 300

\* Project slugs fetch_near_projects returns in the batch model.
NumBatchProjects == 3

\* Largest --threads of the batch model.
MaxThreads == 2

\* Project tasks of one run that never finish.
MaxHangs == 1

\* Seconds a project task runs before it finishes.
ProjectSeconds == {60, 400}

\* The list fetch_near_projects returns.
project_slugs == [i \in 1..NumBatchProjects |-> <<"p", Digit(i)>>]

\* A variant of the split that keeps only the batches that are full.
Batches_dropping_remainder(slugs, batch_size) ==
    [b \in 1..(Len(slugs) \div batch_size) |->
        SubSeq(slugs, (b - 1) * batch_size + 1, b * batch_size)]

\* batches = [project_slugs[i:i + batch_size]
\*            for i in range(0, len(project_slugs), batch_size)]
Batches(slugs, batch_size) ==
    [b \in 1..((Len(slugs) + batch_size - 1) \div batch_size) |->
        SubSeq(slugs, (b - 1) * batch_size + 1,
               IF b * batch_size < Len(slugs) THEN b * batch_size ELSE Len(slugs))]

\* The flags of the batch model: none given.
BatchArgs ==
    [force_refresh |-> FALSE, research_only |-> FALSE, questions_only |-> FALSE]

\* What the catalog and the database do for one project of a batch.
BatchEnvs ==
    {env \in OrchEnvs :
        env.research_call = "ok" /\ env.analysis_call = "reply_pos" /\ env.summary_ok}

\* A verdict of a project stored at hour 0 (by a pass of the single-file main
\* on the same database file).
StoredVerdict(slug) ==
    [project_name |-> slug, total_score |-> NumQuestions,
     recommendation |-> LegacyRecommendation(NumQuestions), success |-> TRUE,
     updated_at |-> 0]

\* What process_single_project_wrapper returns: analyze_single_project's True
\* (here the skip of a recent verdict), or False.
wrapper_returns(outcome) == outcome = "SKIPPED"

\* A variant of the collecting loop that counts every project it collects.
count_success_all(successful, outcome) == successful + 1

\* The body of the as_completed loop of process_project_batch:
\* if future.result(timeout=300): successful_analyses += 1, and nothing is
\* counted in the two except branches.
count_success(successful, outcome) ==
    IF outcome.kind = "result" /\ Val(outcome.value) THEN successful + 1
    ELSE successful

\* The positions in project_slugs of the projects of the batch in progress.
BatchSlugs == DOMAIN project_futures

Hangs == Cardinality({slug \in BatchSlugs : project_futures[slug].state = "hung"})

BatchInit ==
    /\ threads \in 1..MaxThreads
    /\ batch_num = 0
    /\ project_futures = <<>>
    /\ batch_successful = 0
    /\ project_log = [i \in 1..NumBatchProjects |-> None]
    /\ successful_analyses = 0
    /\ total_processed = 0

BatchIdle ==
    /\ threads = 0
    /\ batch_num = 0
    /\ project_futures = <<>>
    /\ batch_successful = 0
    /\ project_log = <<>>
    /\ successful_analyses = 0
    /\ total_processed = 0

\* main calls process_project_batch for the next batch, which submits every
\* project of the batch to its executor.
SubmitBatch ==
    /\ threads > 0
    /\ BatchSlugs = {}
    /\ batch_num < Len(Batches(project_slugs, threads))
    /\ batch_num' = batch_num + 1
    /\ project_futures' =
           LET batch == Batches(project_slugs, threads)[batch_num + 1]
           IN  [i \in {(batch_num * threads) + k : k \in 1..Len(batch)} |-> Submitted]
    /\ batch_successful' = 0
    /\ UNCHANGED <<threads, project_log, successful_analyses, total_processed,
                   key_vars, agg_vars, eval_vars, fan_vars, orch_vars, race_vars, write_vars, main_vars, verdict_vars, parse_vars, phase_vars, cache_vars>>

\* A process_single_project_wrapper task finishes and the as_completed loop
\* of process_project_batch takes its future.
ProjectTaskCompletes ==
    /\ \E i \in BatchSlugs, env \in BatchEnvs, seconds \in ProjectSeconds :
         LET out == process_single_project(final_summaries, project_slugs[i],
                                           BatchArgs, env, now)
             future == [state |-> "finished", raised |-> FALSE,
                        value |-> Some(wrapper_returns(out.outcome)),
                        seconds |-> seconds, faulty |-> ~env.catalog_ok]
             counted == count_success(batch_successful, future_result(future))
         IN  /\ project_futures[i].state = "running"
             /\ project_futures' = [project_futures EXCEPT ![i] = future]
             /\ batch_successful' = counted
             /\ project_log' =
                    [project_log EXCEPT
                        ![i] = Some([outcome |-> out.outcome,
                                     catalog_ok |-> env.catalog_ok,
                                     seconds |-> seconds,
                                     counted |-> counted > batch_successful,
                                     batch |-> batch_num])]
    /\ UNCHANGED <<threads, batch_num, successful_analyses, total_processed,
                   key_vars, agg_vars, eval_vars, fan_vars, orch_vars, race_vars, write_vars, main_vars, verdict_vars, parse_vars, phase_vars, cache_vars>>

\* A project task blocks for good: its future never completes.
ProjectTaskHangs ==
    /\ \E i \in BatchSlugs :
         /\ project_futures[i].state = "running"
         /\ Hangs < MaxHangs
         /\ project_futures' = [project_futures EXCEPT ![i] = [@ EXCEPT !.state = "hung",
                                                                         !.faulty = TRUE]]
    /\ UNCHANGED <<threads, batch_num, batch_successful, project_log,
                   successful_analyses, total_processed,
                   key_vars, agg_vars, eval_vars, fan_vars, orch_vars, race_vars, write_vars, main_vars, verdict_vars, parse_vars, phase_vars, cache_vars>>

\* as_completed has yielded every future of the batch and the executor has
\* shut down: process_project_batch returns its two counts and main adds them
\* to its own.
ReturnBatch ==
    /\ BatchSlugs # {}
    /\ \A i \in BatchSlugs : project_futures[i].state = "finished"
    /\ successful_analyses' = successful_analyses + batch_successful
    /\ total_processed' = total_processed + Cardinality(BatchSlugs)
    /\ project_futures' = <<>>
    /\ batch_successful' = 0
    /\ UNCHANGED <<threads, batch_num, project_log,
                   key_vars, agg_vars, eval_vars, fan_vars, orch_vars, race_vars, write_vars, main_vars, verdict_vars, parse_vars, phase_vars, cache_vars>>

(***************************************************************************)
(* Question tasks that run concurrently on one QuestionAgent: the research *)
(* step of each, statement by statement                                    *)
(***************************************************************************)
\* Question tasks of the interleaving model (the first of the six).
NumRaceTasks == 3

RaceTasks == 1..NumRaceTasks

\* The project of the interleaving model.
RaceProject == <<"A">>

\* QuestionAgent(db_manager, usage_tracker, provider): the usage tracker is
\* absent, an APIUsageTracker, or the DatabaseManager that
\* QuestionAgent(None, db_manager) binds to it; the provider is 'openai' (the
\* default) or 'local'.
RaceWirings ==
    [usage_tracker : {"None", "DatabaseManager", "APIUsageTracker"},
     provider : {"openai", "local"}]

\* What the module flag and the tracker hold before any task has written them;
\* writer 0 is the import or the constructor.
FlagDefault == [value |-> FALSE, writer |-> 0]

ContextDefault == [current_project |-> None, current_agent |-> None, writer |-> 0]

\* A write of task t to a cell last written by writer: an overwrite of another
\* task's value unless the writer is t or nobody.
Overwrites(t, writer, cell) ==
    IF writer \in {0, t} THEN {} ELSE {[kind |-> "overwrite", state |-> cell]}

\* A read by task t of a cell last written by writer.
Reads(t, writer, cell) ==
    IF writer = t THEN {} ELSE {[kind |-> "read", state |-> cell]}

\* Where a task stands once it may set the tracker context or make its call.
Ready(ag) == IF ag.provider = "local" THEN "prompted" ELSE "start"

RaceInit ==
    /\ \E ag \in RaceWirings : race_agent = Some(ag)
    /\ add_function_to_prompt = FlagDefault
    /\ tracker_context = ContextDefault
    /\ task_pc = [t \in RaceTasks |-> "start"]
    /\ interference = {}

RaceIdle ==
    /\ race_agent = None
    /\ add_function_to_prompt = FlagDefault
    /\ tracker_context = ContextDefault
    /\ task_pc = <<>>
    /\ interference = {}

\* litellm.add_function_to_prompt = True, the first statement of
\* _conduct_local_research_with_web_search.
EnableFunctionCalling ==
    /\ race_agent # None
    /\ Val(race_agent).provider = "local"
    /\ \E t \in DOMAIN task_pc :
         /\ task_pc[t] = "start"
         /\ add_function_to_prompt' = [value |-> TRUE, writer |-> t]
         /\ interference' = interference \cup
                Overwrites(t, add_function_to_prompt.writer, "add_function_to_prompt")
         /\ task_pc' = [task_pc EXCEPT ![t] = "prompted"]
    /\ UNCHANGED <<race_agent, tracker_context, key_vars, agg_vars, eval_vars,
                   fan_vars, orch_vars, batch_vars, write_vars, main_vars, verdict_vars, parse_vars, phase_vars, cache_vars>>

\* self.usage_tracker.set_context(project_name, "question_agent"): the
\* APIUsageTracker stores the two values; a DatabaseManager has no such method,
\* the AttributeError ends the research step in the handler of
\* _conduct_question_research.
SetTrackerContext ==
    /\ race_agent # None
    /\ Val(race_agent).usage_tracker # "None"
    /\ \E t \in DOMAIN task_pc :
         /\ task_pc[t] = Ready(Val(race_agent))
         /\ IF Val(race_agent).usage_tracker = "APIUsageTracker"
            THEN /\ tracker_context' = [current_project |-> Some(RaceProject),
                                        current_agent |-> Some("question_agent"),
                                        writer |-> t]
                 /\ interference' = interference \cup
                        Overwrites(t, tracker_context.writer, "usage_tracker")
                 /\ task_pc' = [task_pc EXCEPT ![t] = "context_set"]
            ELSE /\ task_pc' = [task_pc EXCEPT ![t] = "failed"]
                 /\ UNCHANGED <<tracker_context, interference, write_vars, main_vars, verdict_vars, parse_vars, phase_vars, cache_vars>>
    /\ UNCHANGED <<race_agent, add_function_to_prompt, key_vars, agg_vars, eval_vars,
                   fan_vars, orch_vars, batch_vars, write_vars, main_vars, verdict_vars, parse_vars, phase_vars, cache_vars>>

\* The completion call of the research step: litellm reads its module flag
\* when the call carries tools (the 'local' path), and track_responses_create
\* reads the tracker's context to store the usage record.
ResearchCall ==
    /\ race_agent # None
    /\ \E t \in DOMAIN task_pc :
         /\ task_pc[t] = IF Val(race_agent).usage_tracker = "None"
                         THEN Ready(Val(race_agent)) ELSE "context_set"
         /\ interference' = interference
                \cup (IF Val(race_agent).provider = "local"
                      THEN Reads(t, add_function_to_prompt.writer, "add_function_to_prompt")
                      ELSE {})
                \cup (IF Val(race_agent).usage_tracker = "APIUsageTracker"
                      THEN Reads(t, tracker_context.writer, "usage_tracker")
                      ELSE {})
         /\ task_pc' = [task_pc EXCEPT
                           ![t] = IF Val(race_agent).provider = "local"
                                  THEN "called" ELSE "done"]
    /\ UNCHANGED <<race_agent, add_function_to_prompt, tracker_context, key_vars,
                   agg_vars, eval_vars, fan_vars, orch_vars, batch_vars, write_vars, main_vars, verdict_vars, parse_vars, phase_vars, cache_vars>>

\* litellm.add_function_to_prompt = False, after the calls of
\* _conduct_local_research_with_web_search.
ResetFunctionCalling ==
    /\ race_agent # None
    /\ \E t \in DOMAIN task_pc :
         /\ task_pc[t] = "called"
         /\ add_function_to_prompt' = [value |-> FALSE, writer |-> t]
         /\ interference' = interference \cup
                Overwrites(t, add_function_to_prompt.writer, "add_function_to_prompt")
         /\ task_pc' = [task_pc EXCEPT ![t] = "done"]
    /\ UNCHANGED <<race_agent, tracker_context, key_vars, agg_vars, eval_vars,
                   fan_vars, orch_vars, batch_vars, write_vars, main_vars, verdict_vars, parse_vars, phase_vars, cache_vars>>

(***************************************************************************)
(* Writes to the database file while it is busy                            *)
(***************************************************************************)
\* Writes of the write model.
MaxWrites == 2

\* Most consecutive attempts of one write that find the database locked.
MaxBusy == 4

\* The agent of the write model: a QuestionAgent with a db_manager.
WriteAgent == [db_manager |-> TRUE, usage_tracker |-> "None"]

\* The project of the write model.
WriteProject == <<"A">>

\* A write as the model records it: the path, how many attempts found the
\* database locked, the attempts made, the sleeps between them, whether the
\* row is in the table afterwards, and, for a cache write, what the evaluator
\* returned.
WriteRecord(path, busy, w, returned) ==
    [path |-> path, busy |-> busy, attempts |-> w.attempts, delays |-> w.delays,
     written |-> w.written, returned |-> returned]

\* DatabaseManager.store_catalog_data: nothing without catalog data, else one
\* INSERT OR REPLACE inside try / except Exception: print.
store_catalog_data(rows, project_name, catalog_data, busy) ==
    IF catalog_data = None \/ ~single_attempt(busy).written THEN rows
    ELSE UpsertByProject(rows, [project_name |-> project_name,
                                catalog_data |-> Val(catalog_data)])

\* DatabaseManager.store_api_usage: one INSERT inside try / except Exception:
\* print.
store_api_usage(rows, project_name, agent_type, busy) ==
    IF ~single_attempt(busy).written THEN rows
    ELSE rows \cup {[id |-> Cardinality(rows) + 1, project_name |-> project_name,
                     agent_type |-> agent_type]}

WriteInit ==
    /\ last_write = None
    /\ n_writes = 0
    /\ project_catalog = {}
    /\ api_usage_tracking = {}

WriteIdle ==
    /\ last_write = None
    /\ n_writes = -1
    /\ project_catalog = {}
    /\ api_usage_tracking = {}

\* question_agent of the single-file implementation evaluates a question while
\* the database is locked for the first busy attempts of its cache write.
LegacyCacheWrite ==
    /\ n_writes >= 0
    /\ n_writes < MaxWrites
    /\ \E id \in 1..MaxEvalQuestion, busy \in 0..MaxBusy :
         LET env == [connect_ok |-> TRUE, research_call |-> "ok",
                     analysis_call |-> "reply_pos", busy |-> busy]
             out == legacy_question_agent(question_analyses_table, WriteProject,
                                          LegacyQuestionConfig(id), env, now)
         IN  /\ question_analyses_table' = out.table
             /\ last_write' =
                    IF out.calls = {} THEN None
                    ELSE Some(WriteRecord("legacy_cache_store", busy,
                                          legacy_cache_insert(0, busy, <<>>),
                                          out.result))
    /\ n_writes' = n_writes + 1
    /\ UNCHANGED <<now, agent, question_research, question_analysis, last_eval,
                   n_evals, n_ticks, project_catalog, api_usage_tracking,
                   key_vars, agg_vars, fan_vars, orch_vars, batch_vars, race_vars, main_vars, verdict_vars, parse_vars, phase_vars, cache_vars>>

\* QuestionAgent.analyze evaluates a question while the database is locked
\* for the first busy attempts of each of its cache writes.
CacheStore ==
    /\ n_writes >= 0
    /\ n_writes < MaxWrites
    /\ \E id \in 1..MaxEvalQuestion, busy \in 0..MaxBusy :
         LET env == [db_ok |-> TRUE, store_ok |-> single_attempt(busy).written,
                     research_call |-> "ok", analysis_call |-> "reply_pos"]
             out == analyze(WriteAgent, question_research, question_analysis,
                            WriteProject, QuestionConfig(id), env, now)
         IN  /\ question_research' = out.research_table
             /\ question_analysis' = out.analysis_table
             /\ last_write' =
                    IF out.calls = {} THEN None
                    ELSE Some(WriteRecord("cache_store", busy, single_attempt(busy),
                                          Some(out.result)))
    /\ n_writes' = n_writes + 1
    /\ UNCHANGED <<now, agent, question_analyses_table, last_eval, n_evals, n_ticks,
                   project_catalog, api_usage_tracking,
                   key_vars, agg_vars, fan_vars, orch_vars, batch_vars, race_vars, main_vars, verdict_vars, parse_vars, phase_vars, cache_vars>>

\* DatabaseManager.store_catalog_data while the database is locked for the
\* first busy attempts.
StoreCatalogData ==
    /\ n_writes >= 0
    /\ n_writes < MaxWrites
    /\ \E catalog_data \in {"catalog v1", "catalog v2"}, busy \in 0..MaxBusy :
         /\ project_catalog' = store_catalog_data(project_catalog, WriteProject,
                                                  Some(catalog_data), busy)
         /\ last_write' = Some(WriteRecord("catalog_store", busy, single_attempt(busy),
                                           None))
    /\ n_writes' = n_writes + 1
    /\ UNCHANGED <<api_usage_tracking, key_vars, agg_vars, eval_vars, fan_vars,
                   orch_vars, batch_vars, race_vars, main_vars, verdict_vars, parse_vars, phase_vars, cache_vars>>

\* DatabaseManager.store_api_usage while the database is locked for the first
\* busy attempts.
StoreApiUsage ==
    /\ n_writes >= 0
    /\ n_writes < MaxWrites
    /\ \E agent_type \in {"question_agent", "summary_agent"}, busy \in 0..MaxBusy :
         /\ api_usage_tracking' = store_api_usage(api_usage_tracking, WriteProject,
                                                  agent_type, busy)
         /\ last_write' = Some(WriteRecord("usage_record", busy, single_attempt(busy),
                                           None))
    /\ n_writes' = n_writes + 1
    /\ UNCHANGED <<project_catalog, key_vars, agg_vars, eval_vars, fan_vars,
                   orch_vars, batch_vars, race_vars, main_vars, verdict_vars, parse_vars, phase_vars, cache_vars>>

(***************************************************************************)
(* A run of main from its start: argument validation, the environment      *)
(* check, the project list, then the batches (modular implementation) or   *)
(* the project loop (single-file implementation)                           *)
(***************************************************************************)
\* BATCH_PROCESSING_CONFIG of config/config.py (the two delays are not
\* modelled).
BATCH_PROCESSING_CONFIG == [default_batch_size |-> 5, max_batch_size |-> 10]

\* Projects the catalog lists in the model of a run.
NumMainProjects == 12

\* Largest --threads asked for in the model of a run.
MaxRequestedThreads == 12

\* Values of --threads: a negative one, zero, and what lies below, at and
\* above the cap.
RequestedThreads == (0 - 1)..MaxRequestedThreads

\* The keys of the catalog's project list, in order.
catalog_slugs ==
    LET letters == <<"a", "b", "c", "d", "e", "f", "g", "h", "i", "j", "k", "l", "m",
                     "n", "o", "q">>
    IN  [i \in 1..NumMainProjects |-> <<"p", letters[i]>>]

\* What a run finds when it starts: the credential in the environment,
\* prompt.md on disk, the catalog answering, and --threads.
MainConfigs ==
    [api_key : BOOLEAN, prompt_md : BOOLEAN, catalog_ok : BOOLEAN,
     threads : RequestedThreads]

\* A variant of the validation that lets a large --threads through.
validate_threads_uncapped(requested) ==
    IF requested < 1 THEN [exit |-> TRUE, threads |-> requested]
    ELSE [exit |-> FALSE, threads |-> requested]

\* "Validate threads parameter" of main: a value above max_batch_size is set
\* to max_batch_size, a value below 1 ends the run with sys.exit(1).
validate_threads(requested) ==
    IF requested > BATCH_PROCESSING_CONFIG.max_batch_size
    THEN [exit |-> FALSE, threads |-> BATCH_PROCESSING_CONFIG.max_batch_size]
    ELSE IF requested < 1 THEN [exit |-> TRUE, threads |-> requested]
    ELSE [exit |-> FALSE, threads |-> requested]

\* A variant of the environment check that does not look for prompt.md.
setup_environment_lenient(config) == config.api_key

\* setup_environment: sys.exit(1) unless OPENAI_API_KEY is set and prompt.md
\* can be opened; TRUE when it returns the system prompt.
setup_environment(config) == config.api_key /\ config.prompt_md

\* The start of main of the single-file implementation: return unless
\* openai_key is set and prompt.md can be opened.
legacy_load_config(config) == config.api_key /\ config.prompt_md

\* Every table of the database file is as the run found it.
NoRowWritten ==
    /\ final_summaries = {}
    /\ project_research = {}
    /\ question_analyses_table.rows = {}
    /\ question_research = NoTable
    /\ question_analysis = NoTable

MainInit ==
    /\ main_legacy \in BOOLEAN
    /\ main_config \in {c \in MainConfigs :
                           main_legacy => c.threads = BATCH_PROCESSING_CONFIG.default_batch_size}
    /\ main_pc = IF main_legacy THEN "load_config" ELSE "validate_threads"
    /\ args_threads = main_config.threads
    /\ fetched_slugs = None
    /\ main_batch_num = 0
    /\ in_flight = {}
    /\ analysed = 0

MainIdle ==
    /\ main_legacy = FALSE
    /\ main_config = <<>>
    /\ main_pc = "idle"
    /\ args_threads = 0
    /\ fetched_slugs = None
    /\ main_batch_num = 0
    /\ in_flight = {}
    /\ analysed = 0

\* main validates --threads.
ValidateThreads ==
    /\ main_pc = "validate_threads"
    /\ LET v == validate_threads(args_threads)
       IN  /\ args_threads' = v.threads
           /\ main_pc' = IF v.exit THEN "exit" ELSE "setup_environment"
    /\ UNCHANGED <<main_legacy, main_config, fetched_slugs, main_batch_num, in_flight,
                   analysed, key_vars, agg_vars, eval_vars, fan_vars, orch_vars,
                   batch_vars, race_vars, write_vars, verdict_vars, parse_vars, phase_vars, cache_vars>>

\* main calls setup_environment.
SetupEnvironment ==
    /\ main_pc = "setup_environment"
    /\ main_pc' = IF setup_environment(main_config) THEN "fetch_near_projects"
                  ELSE "exit"
    /\ UNCHANGED <<main_legacy, main_config, args_threads, fetched_slugs,
                   main_batch_num, in_flight, analysed, key_vars, agg_vars, eval_vars,
                   fan_vars, orch_vars, batch_vars, race_vars, write_vars, verdict_vars, parse_vars, phase_vars, cache_vars>>

\* main calls fetch_near_projects, which ends the run with sys.exit(1) when
\* the catalog does not answer.
FetchNearProjects ==
    /\ main_pc = "fetch_near_projects"
    /\ IF main_config.catalog_ok
       THEN /\ fetched_slugs' = Some(catalog_slugs)
            /\ main_pc' = "batches"
       ELSE /\ fetched_slugs' = Some(<<>>)
            /\ main_pc' = "exit"
    /\ UNCHANGED <<main_legacy, main_config, args_threads, main_batch_num, in_flight,
                   analysed, key_vars, agg_vars, eval_vars, fan_vars, orch_vars,
                   batch_vars, race_vars, write_vars, verdict_vars, parse_vars, phase_vars, cache_vars>>

\* main hands the next batch to process_project_batch, whose executor takes
\* one task per project of the batch; after the last batch main exports.
MainSubmitBatch ==
    /\ main_pc = "batches"
    /\ in_flight = {}
    /\ LET batches == Batches(Val(fetched_slugs), args_threads)
       IN  IF main_batch_num < Len(batches)
           THEN /\ main_batch_num' = main_batch_num + 1
                /\ in_flight' = {main_batch_num * args_threads + k :
                                    k \in 1..Len(batches[main_batch_num + 1])}
                /\ main_pc' = main_pc
           ELSE /\ main_pc' = "export"
                /\ UNCHANGED <<main_batch_num, in_flight, verdict_vars, parse_vars, phase_vars, cache_vars>>
    /\ UNCHANGED <<main_legacy, main_config, args_threads, fetched_slugs, analysed,
                   key_vars, agg_vars, eval_vars, fan_vars, orch_vars, batch_vars,
                   race_vars, write_vars, verdict_vars, parse_vars, phase_vars, cache_vars>>

\* Every task of the batch has finished and the executor has shut down:
\* process_project_batch returns to main.  No task gets past
\* ResearchAgent(None, db_manager), so none writes a row.
MainReturnBatch ==
    /\ main_pc = "batches"
    /\ in_flight # {}
    /\ \A i \in in_flight :
           process_single_project(final_summaries, Val(fetched_slugs)[i], BatchArgs,
                                  [catalog_ok |-> TRUE, db_ok |-> TRUE,
                                   research_call |-> "ok",
                                   analysis_call |-> "reply_pos",
                                   summary_ok |-> TRUE], now).outcome = "FAILED"
    /\ analysed' = analysed + Cardinality(in_flight)
    /\ in_flight' = {}
    /\ UNCHANGED <<main_legacy, main_config, main_pc, args_threads, fetched_slugs,
                   main_batch_num, key_vars, agg_vars, eval_vars, fan_vars, orch_vars,
                   batch_vars, race_vars, write_vars, verdict_vars, parse_vars, phase_vars, cache_vars>>

\* The single-file main checks openai_key and prompt.md.
LegacyLoadConfig ==
    /\ main_pc = "load_config"
    /\ main_pc' = IF legacy_load_config(main_config) THEN "fetch_projects" ELSE "exit"
    /\ UNCHANGED <<main_legacy, main_config, args_threads, fetched_slugs,
                   main_batch_num, in_flight, analysed, key_vars, agg_vars, eval_vars,
                   fan_vars, orch_vars, batch_vars, race_vars, write_vars, verdict_vars, parse_vars, phase_vars, cache_vars>>

\* The single-file main creates the tables and fetches the project list; it
\* returns when the catalog does not answer.
LegacyFetchProjects ==
    /\ main_pc = "fetch_projects"
    /\ IF main_config.catalog_ok
       THEN /\ fetched_slugs' = Some(catalog_slugs)
            /\ main_pc' = "project_loop"
       ELSE /\ fetched_slugs' = Some(<<>>)
            /\ main_pc' = "exit"
    /\ UNCHANGED <<main_legacy, main_config, args_threads, main_batch_num, in_flight,
                   analysed, key_vars, agg_vars, eval_vars, fan_vars, orch_vars,
                   batch_vars, race_vars, write_vars, verdict_vars, parse_vars, phase_vars, cache_vars>>

\* One iteration of the project loop of the single-file main; after the last
\* project main exports.
LegacyProjectLoop ==
    /\ main_pc = "project_loop"
    /\ IF analysed < Len(Val(fetched_slugs))
       THEN LET out == legacy_process_project(
                           [final_summaries |-> final_summaries,
                            project_research |-> project_research,
                            question_analyses |-> question_analyses_table],
                           Val(fetched_slugs)[analysed + 1], BatchArgs,
                           [catalog_ok |-> TRUE, db_ok |-> TRUE,
                            research_call |-> "ok", analysis_call |-> "reply_pos",
                            summary_ok |-> TRUE], now)
            IN  /\ final_summaries' = out.db.final_summaries
                /\ project_research' = out.db.project_research
                /\ question_analyses_table' = out.db.question_analyses
                /\ analysed' = analysed + 1
                /\ main_pc' = main_pc
       ELSE /\ main_pc' = "export"
            /\ UNCHANGED <<final_summaries, project_research,
                           question_analyses_table, analysed, verdict_vars, parse_vars, phase_vars, cache_vars>>
    /\ UNCHANGED <<main_legacy, main_config, args_threads, fetched_slugs,
                   main_batch_num, in_flight, now, agent, question_research,
                   question_analysis, last_eval, n_evals, n_ticks, last_run,
                   persisted_at, n_runs, key_vars, agg_vars, fan_vars, batch_vars,
                   race_vars, write_vars, verdict_vars, parse_vars, phase_vars, cache_vars>>

(***************************************************************************)
(* The verdict table under passes over several projects: the row of a      *)
(* pass is stored under the display name the catalog gave for the project  *)
(***************************************************************************)
\* Passes in the model of the verdict table.
MaxPasses == 3

\* Slugs of the catalog in the model of the verdict table.
VerdictSlugs == {<<"s", "1">>, <<"s", "2">>}

\* Display names the catalog gives (profile.name).
DisplayNames == {<<"N", "1">>, <<"N", "2">>}

\* Total scores of the verdicts in the model of the verdict table.
VerdictScores == {0, 6}

\* name = detail.get('profile', {}).get('name', slug)
project_name_of(profile, slug) == Get(profile, "name", slug)

\* A variant of the table that is keyed by slug.
store_final_summary_by_slug(rows, row) ==
    {r \in rows : r.slug # row.slug} \cup {row}

\* INSERT OR REPLACE INTO final_summaries: project_name is the UNIQUE column
\* of the table, so the row replaces the row of the same project_name.
store_final_summary(rows, row) ==
    {r \in rows : r.project_name # row.project_name} \cup {row}

VerdictInit ==
    /\ catalog_profile \in [VerdictSlugs -> {[name |-> n] : n \in DisplayNames}]
    /\ pass_of = [slug \in VerdictSlugs |-> None]
    /\ latest_verdict = [slug \in VerdictSlugs |-> None]
    /\ n_passes = 0

VerdictIdle ==
    /\ catalog_profile = <<>>
    /\ pass_of = <<>>
    /\ latest_verdict = <<>>
    /\ n_passes = 0

\* A pass over a project that is not skipped (the table holds no recent row
\* of the display name, or --force-refresh is given) starts: it fetches the
\* project's detail from the catalog and takes the display name from it.
BeginPass ==
    /\ n_passes < MaxPasses
    /\ \E slug \in VerdictSlugs :
         /\ pass_of[slug] = None
         /\ pass_of' = [pass_of EXCEPT
                           ![slug] = Some([name |-> project_name_of(catalog_profile[slug],
                                                                     slug),
                                           slug |-> slug])]
    /\ n_passes' = n_passes + 1
    /\ UNCHANGED <<catalog_profile, latest_verdict, final_summaries, project_research,
                   last_run, persisted_at, n_runs, key_vars, agg_vars, eval_vars,
                   fan_vars, batch_vars, race_vars, write_vars, main_vars, parse_vars, phase_vars, cache_vars>>

\* The pass reaches "Store final summary": its verdict is written to
\* final_summaries and the pass is complete.
StoreFinalSummary ==
    /\ \E slug \in VerdictSlugs, total_score \in VerdictScores :
         /\ pass_of[slug] # None
         /\ LET row == [project_name |-> Val(pass_of[slug]).name, slug |-> slug,
                        total_score |-> total_score,
                        recommendation |-> LegacyRecommendation(total_score),
                        success |-> TRUE, updated_at |-> n_passes]
            IN  /\ final_summaries' = store_final_summary(final_summaries, row)
                /\ latest_verdict' = [latest_verdict EXCEPT ![slug] = Some(row)]
         /\ pass_of' = [pass_of EXCEPT ![slug] = None]
    /\ UNCHANGED <<catalog_profile, n_passes, project_research, last_run,
                   persisted_at, n_runs, key_vars, agg_vars, eval_vars, fan_vars,
                   batch_vars, race_vars, write_vars, main_vars, parse_vars, phase_vars, cache_vars>>

\* The catalog's entry of a project is edited: its display name changes.
CatalogUpdate ==
    /\ n_passes < MaxPasses
    /\ \E slug \in VerdictSlugs, n \in DisplayNames :
         /\ catalog_profile[slug].name # n
         /\ catalog_profile' = [catalog_profile EXCEPT ![slug] = [name |-> n]]
    /\ UNCHANGED <<pass_of, latest_verdict, n_passes, final_summaries,
                   project_research, last_run, persisted_at, n_runs, key_vars,
                   agg_vars, eval_vars, fan_vars, batch_vars, race_vars, write_vars,
                   main_vars, parse_vars, phase_vars, cache_vars>>

(***************************************************************************)
(* The analysis parsers: QuestionAgent._parse_analysis_output and the      *)
(* score and confidence extraction of the single-file question_agent.      *)
(* A string is a sequence of characters; a text is the sequence of its     *)
(* lines (the text split at newlines).                                     *)
(***************************************************************************)
\* Longest response, in lines, handed to the parsers.
MaxResponseLines == 3

LowerLetters ==
    <<"a", "b", "c", "d", "e", "f", "g", "h", "i", "j", "k", "l", "m",
      "n", "o", "p", "q", "r", "s", "t", "u", "v", "w", "x", "y", "z">>

UpperLetters ==
    <<"A", "B", "C", "D", "E", "F", "G", "H", "I", "J", "K", "L", "M",
      "N", "O", "P", "Q", "R", "S", "T", "U", "V", "W", "X", "Y", "Z">>

\* str.upper()
Upper(s) ==
    [i \in DOMAIN s |->
        IF \E k \in DOMAIN LowerLetters : LowerLetters[k] = s[i]
        THEN UpperLetters[CHOOSE k \in DOMAIN LowerLetters : LowerLetters[k] = s[i]]
        ELSE s[i]]

\* str.startswith(prefix)
StartsWith(s, prefix) ==
    /\ Len(s) >= Len(prefix)
    /\ SubSeq(s, 1, Len(prefix)) = prefix

\* sub in s
Contains(s, sub) ==
    \E i \in 1..(Len(s) - Len(sub) + 1) : SubSeq(s, i, i + Len(sub) - 1) = sub

\* str.strip()
RECURSIVE Strip(_)
Strip(s) ==
    IF s = <<>> THEN s
    ELSE IF s[1] = " " THEN Strip(Tail(s))
    ELSE IF s[Len(s)] = " " THEN Strip(SubSeq(s, 1, Len(s) - 1))
    ELSE s

\* str.replace(old, '')
RECURSIVE Remove(_, _)
Remove(s, old) ==
    IF s = <<>> THEN s
    ELSE IF StartsWith(s, old) THEN Remove(SubSeq(s, Len(old) + 1, Len(s)), old)
    ELSE <<s[1]>> \o Remove(Tail(s), old)

\* str.split(sep)[1], for a string that contains sep
RECURSIVE AfterFirst(_, _)
AfterFirst(s, sep) ==
    IF StartsWith(s, sep) THEN SubSeq(s, Len(sep) + 1, Len(s))
    ELSE AfterFirst(Tail(s), sep)

\* The literals of the parsers.
ScorePrefix == <<"S", "C", "O", "R", "E", ":">>
ConfidencePrefix == <<"C", "O", "N", "F", "I", "D", "E", "N", "C", "E", ":">>
AnalysisPrefix == <<"A", "N", "A", "L", "Y", "S", "I", "S", ":">>
PlusOne == <<"+", "1">>
MinusOne == <<"-", "1">>
ScoreOne == ScorePrefix \o <<" ", "1">>
ScoreMinusOne == ScorePrefix \o <<" ", "-", "1">>
Strong == <<"S", "t", "r", "o", "n", "g">>
Weak == <<"W", "e", "a", "k">>
HIGH == <<"H", "I", "G", "H">>
LOW == <<"L", "O", "W">>

\* The lines responses are made of: the three fields in the format the
\* analysis prompt asks for, fields with other values, a narrative line and a
\* blank line.
AnalysisLine == AnalysisPrefix \o <<" ", "g", "o", "o", "d">>
ScoreLinePlus == ScorePrefix \o <<" ", "+", "1">>
ScoreLineMinus ==
    ScorePrefix \o <<" ", "-", "1", " ", "(">> \o Strong \o <<" ", "N", "o", ")">>
ScoreLineOther == ScorePrefix \o <<" ", "n", "/", "a">>
ConfidenceLineHigh == ConfidencePrefix \o <<" ", "H", "i", "g", "h">>
ConfidenceLineOther == ConfidencePrefix \o <<" ", "s", "o", "m", "e">>
NarrativeLine == <<" ", "f", "i", "t", "s">>
BlankLine == <<>>

ResponseLines ==
    {AnalysisLine, ScoreLinePlus, ScoreLineMinus, ScoreLineOther, ConfidenceLineHigh,
     ConfidenceLineOther, NarrativeLine, BlankLine}

\* The responses of the reasoning model: analysis_content.split('\n') has at
\* least one line, the empty line for the empty response.
Responses == UNION {[1..k -> ResponseLines] : k \in 1..MaxResponseLines}

\* A variant of the default confidence.
DefaultConfidence_low == "Low"

\* confidence = "Medium", the value before any line is read.
DefaultConfidence == "Medium"

\* What a SCORE: line sets the score to.
score_of_line(line) ==
    LET score_text == Strip(Remove(line, ScorePrefix))
    IN  IF Contains(score_text, PlusOne) \/ Contains(score_text, ScoreOne) THEN 1
        ELSE IF Contains(score_text, MinusOne) \/ Contains(score_text, ScoreMinusOne)
        THEN -1
        ELSE 0

\* What a CONFIDENCE: line sets the confidence to.
confidence_of_line(line) ==
    LET confidence_text == Strip(Remove(line, ConfidencePrefix))
    IN  IF Contains(Upper(confidence_text), HIGH) THEN "High"
        ELSE IF Contains(Upper(confidence_text), LOW) THEN "Low"
        ELSE "Medium"

\* The body of the loop over the lines of the response.
parse_line(acc, raw_line) ==
    LET line == Strip(raw_line)
    IN  IF StartsWith(Upper(line), ScorePrefix)
        THEN [acc EXCEPT !.score = score_of_line(line)]
        ELSE IF StartsWith(Upper(line), ConfidencePrefix)
        THEN [acc EXCEPT !.confidence = confidence_of_line(line)]
        ELSE IF line # <<>> /\ ~StartsWith(Upper(line), AnalysisPrefix)
        THEN [acc EXCEPT !.analysis_lines = Append(@, line)]
        ELSE acc

RECURSIVE parse_lines(_, _)
parse_lines(acc, lines) ==
    IF lines = <<>> THEN acc
    ELSE parse_lines(parse_line(acc, Head(lines)), Tail(lines))

\* QuestionAgent._parse_analysis_output: score, confidence and the narrative
\* lines; the raw response is the analysis when no narrative line was found.
parse_analysis_output(analysis_content) ==
    LET acc == parse_lines([score |-> 0, confidence |-> DefaultConfidence,
                            analysis_lines |-> <<>>], analysis_content)
    IN  [analysis |-> IF acc.analysis_lines # <<>> THEN acc.analysis_lines
                      ELSE analysis_content,
         score |-> acc.score,
         confidence |-> acc.confidence]

\* The body of the loop of the single-file question_agent: no strip, the
\* prefixes matched as written, 'Strong' and 'Weak' looked for beside the
\* signed digits, the confidence taken as it stands.
legacy_parse_line(acc, line) ==
    IF StartsWith(line, ScorePrefix)
    THEN LET score_text == Strip(AfterFirst(line, ScorePrefix))
         IN  [acc EXCEPT !.score =
                  IF Contains(score_text, PlusOne) \/ Contains(score_text, Strong) THEN 1
                  ELSE IF Contains(score_text, MinusOne) \/ Contains(score_text, Weak)
                  THEN -1
                  ELSE 0]
    ELSE IF StartsWith(line, ConfidencePrefix)
    THEN [acc EXCEPT !.confidence = Strip(AfterFirst(line, ConfidencePrefix))]
    ELSE acc

RECURSIVE legacy_parse_lines(_, _)
legacy_parse_lines(acc, lines) ==
    IF lines = <<>> THEN acc
    ELSE legacy_parse_lines(legacy_parse_line(acc, Head(lines)), Tail(lines))

\* "Extract score and confidence" of the single-file question_agent; the
\* analysis it stores is the raw response.
legacy_parse(analysis_content) ==
    LET acc == legacy_parse_lines([score |-> 0, confidence |-> <<"M", "e", "d", "i", "u", "m">>],
                                  analysis_content)
    IN  [analysis |-> analysis_content, score |-> acc.score,
         confidence |-> acc.confidence]

ParseInit ==
    /\ parse_response = None
    /\ parse_result = None

ParseIdle ==
    /\ parse_response = None
    /\ parse_result = None

\* _parse_analysis_output is handed a response.
ParseAnalysisOutput ==
    /\ parse_response = None
    /\ \E analysis_content \in Responses :
         /\ parse_response' = Some([legacy |-> FALSE, content |-> analysis_content])
         /\ parse_result' = Some(parse_analysis_output(analysis_content))
    /\ UNCHANGED <<key_vars, agg_vars, eval_vars, fan_vars, orch_vars, batch_vars,
                   race_vars, write_vars, main_vars, verdict_vars, phase_vars, cache_vars>>

\* The single-file question_agent extracts score and confidence from a
\* response.
LegacyParse ==
    /\ parse_response = None
    /\ \E analysis_content \in Responses :
         /\ parse_response' = Some([legacy |-> TRUE, content |-> analysis_content])
         /\ parse_result' = Some(legacy_parse(analysis_content))
    /\ UNCHANGED <<key_vars, agg_vars, eval_vars, fan_vars, orch_vars, batch_vars,
                   race_vars, write_vars, main_vars, verdict_vars, phase_vars, cache_vars>>

(***************************************************************************)
(* QuestionAgent.analyze, phase by phase                                   *)
(***************************************************************************)
\* Clock advances in one run of the phase model.
MaxPhaseTicks == 1

\* Hours by which the clock of the phase model advances: past the freshness
\* window.
PhaseTickHours == FreshnessHours + 1

PhaseProject == <<"a">>

PhaseQuestions == {1}

\* What an evaluation leaves for the next one to be compared with.
PhaseSummary(project_name, id, r, a) ==
    [project_name |-> project_name, question_id |-> id,
     analysis_failed |-> r.result.success /\ (a.raised \/ ~a.result.success)]

PhaseInit ==
    /\ phase_agent \in {Some(w) : w \in AgentWirings}
    /\ phase_research = NoTable
    /\ phase_analysis = NoTable
    /\ phase_now = 0
    /\ last_phase = None
    /\ prev_phase = None

PhaseIdle ==
    /\ phase_agent = None
    /\ phase_research = NoTable
    /\ phase_analysis = NoTable
    /\ phase_now = 0
    /\ last_phase = None
    /\ prev_phase = None

\* Time passes.
PhaseTick ==
    /\ phase_now < MaxPhaseTicks * PhaseTickHours
    /\ phase_now' = phase_now + PhaseTickHours
    /\ UNCHANGED <<phase_agent, phase_research, phase_analysis, last_phase, prev_phase,
                   key_vars, agg_vars, eval_vars, fan_vars, orch_vars, batch_vars,
                   race_vars, write_vars, main_vars, verdict_vars, parse_vars,
                   cache_vars>>

\* One call of QuestionAgent.analyze, with what each of its two phases
\* returned: research is the dict of the research phase, analysis the outcome
\* of the analysis phase, None when analyze returned before it.
PhaseEvaluate ==
    /\ \E id \in PhaseQuestions, env \in AgentEnvs :
         LET ag == Val(phase_agent)
             question == QuestionConfig(id)
             r == conduct_question_research(ag, phase_research, PhaseProject,
                                            question, env, phase_now)
             a == conduct_question_analysis(ag, phase_analysis, PhaseProject,
                                            question, env, phase_now)
             out == analyze(ag, phase_research, phase_analysis, PhaseProject,
                            question, env, phase_now)
         IN  /\ phase_research' = out.research_table
             /\ phase_analysis' = out.analysis_table
             /\ last_phase' = Some([project_name |-> PhaseProject,
                                    question_id |-> id, env |-> env,
                                    at |-> phase_now,
                                    research |-> r.result,
                                    research_hit |-> r.hits # {},
                                    analysis |-> IF r.result.success
                                                 THEN Some([raised |-> a.raised,
                                                            result |-> a.result,
                                                            hit |-> a.hits # {}])
                                                 ELSE None,
                                    result |-> out.result, calls |-> out.calls,
                                    summary |-> PhaseSummary(PhaseProject, id, r, a)])
             /\ prev_phase' = IF last_phase = None THEN None
                              ELSE Some(Val(last_phase).summary)
    /\ UNCHANGED <<phase_agent, phase_now, key_vars, agg_vars, eval_vars, fan_vars,
                   orch_vars, batch_vars, race_vars, write_vars, main_vars,
                   verdict_vars, parse_vars, cache_vars>>

(***************************************************************************)
(* The cache table under concurrent stores: _check_cache and _store_cache  *)
(* of QuestionAgent, and the cache write of the single-file question_agent,*)
(* statement by statement                                                  *)
(***************************************************************************)
\* Clock advances in one run of the cache model.
MaxCacheTicks == 1

\* Hours by which the clock of the cache model advances: past the freshness
\* window.
CacheTickHours == FreshnessHours + 1

\* The two tasks that store into the cache table.
StoreTasks == {1, 2}

CacheQuestions == {1, 2}

\* The key under which the analysis of question id is cached.
CacheKeyOf(legacy, id) ==
    IF legacy
    THEN generate_cache_key(PhaseProject, LegacyQuestionConfig(id).key)
    ELSE create_cache_key(AnalysisOperation(id), PhaseProject,
                          QuestionConfig(id).question)

\* The result a task stores.
StoreValue(t) == [written_by |-> t]

IdleTask ==
    [pc |-> "idle", question_id |-> 0, attempt |-> 0, inserted_at |-> 0,
     outcome |-> "none", started_after |-> {}]

\* The row of INSERT OR REPLACE INTO ... VALUES (cache_key, result_data), with
\* created_at taking the time of the statement.
CacheRow(legacy, t, task) ==
    [cache_key |-> CacheKeyOf(legacy, task.question_id),
     result_data |-> JsonDumps(StoreValue(t)),
     created_at |-> task.inserted_at,
     stored_by |-> t]

\* An INSERT that would not replace: the table as it would be without the
\* primary key on cache_key.
insert_plain(table, row) ==
    [exists |-> TRUE, rows |-> table.rows \cup {row}]

\* INSERT OR REPLACE on the primary key cache_key.
insert_or_replace(table, row) ==
    [exists |-> TRUE,
     rows |-> {r \in table.rows : r.cache_key # row.cache_key} \cup {row}]

CacheInit ==
    /\ cache_legacy \in BOOLEAN
    /\ cache_agent \in IF cache_legacy THEN {None} ELSE {Some(w) : w \in AgentWirings}
    /\ cache_table = IF cache_legacy THEN [exists |-> TRUE, rows |-> {}] ELSE NoTable
    /\ cache_now = 0
    /\ store_task = [t \in StoreTasks |-> IdleTask]
    /\ write_lock = 0
    /\ last_lookup = None

CacheIdle ==
    /\ cache_legacy = FALSE
    /\ cache_agent = None
    /\ cache_table = NoTable
    /\ cache_now = 0
    /\ store_task = <<>>
    /\ write_lock = 0
    /\ last_lookup = None

\* Time passes.
CacheTick ==
    /\ cache_now < MaxCacheTicks * CacheTickHours
    /\ cache_now' = cache_now + CacheTickHours
    /\ UNCHANGED <<cache_legacy, cache_agent, cache_table, store_task, write_lock,
                   last_lookup, key_vars, agg_vars, eval_vars, fan_vars, orch_vars,
                   batch_vars, race_vars, write_vars, main_vars, verdict_vars,
                   parse_vars, phase_vars>>

\* One call of QuestionAgent._check_cache: its SELECT sees what is committed.
CheckCache ==
    /\ cache_agent # None
    /\ \E id \in CacheQuestions, db_ok \in BOOLEAN :
         LET cache_key == CacheKeyOf(FALSE, id)
         IN  last_lookup' =
                 Some([cache_key |-> cache_key, at |-> cache_now, db_ok |-> db_ok,
                       table |-> cache_table,
                       result |-> check_cache(Val(cache_agent), cache_table,
                                              cache_key, cache_now, db_ok)])
    /\ UNCHANGED <<cache_legacy, cache_agent, cache_table, cache_now, store_task,
                   write_lock, key_vars, agg_vars, eval_vars, fan_vars, orch_vars,
                   batch_vars, race_vars, write_vars, main_vars, verdict_vars,
                   parse_vars, phase_vars>>

\* A task enters _store_cache, or reaches the cache write of question_agent.
\* Without a db_manager _store_cache returns at once.
StartStore(t) ==
    /\ store_task[t].pc = "idle"
    /\ \E id \in CacheQuestions :
         store_task' =
             [store_task EXCEPT
                 ![t] = [IdleTask EXCEPT
                            !.question_id = id,
                            !.started_after =
                                {u \in StoreTasks : store_task[u].pc = "done"},
                            !.pc = IF cache_legacy THEN "insert"
                                   ELSE IF Val(cache_agent).db_manager THEN "create"
                                   ELSE "done",
                            !.outcome = IF cache_legacy \/ Val(cache_agent).db_manager
                                        THEN "none" ELSE "skipped"]]
    /\ UNCHANGED <<cache_legacy, cache_agent, cache_table, cache_now, write_lock,
                   last_lookup, key_vars, agg_vars, eval_vars, fan_vars, orch_vars,
                   batch_vars, race_vars, write_vars, main_vars, verdict_vars,
                   parse_vars, phase_vars>>

\* CREATE TABLE IF NOT EXISTS, committed on its own: nothing to do when the
\* table exists, otherwise it needs the write lock of the database.
CreateTable(t) ==
    /\ store_task[t].pc = "create"
    /\ cache_table.exists \/ write_lock = 0
    /\ cache_table' = [cache_table EXCEPT !.exists = TRUE]
    /\ store_task' = [store_task EXCEPT ![t].pc = "insert"]
    /\ UNCHANGED <<cache_legacy, cache_agent, cache_now, write_lock, last_lookup,
                   key_vars, agg_vars, eval_vars, fan_vars, orch_vars, batch_vars,
                   race_vars, write_vars, main_vars, verdict_vars, parse_vars,
                   phase_vars>>

\* INSERT OR REPLACE: opens the task's transaction and takes the write lock.
InsertOrReplace(t) ==
    /\ store_task[t].pc = "insert"
    /\ write_lock = 0
    /\ write_lock' = t
    /\ store_task' = [store_task EXCEPT ![t].pc = "commit",
                                        ![t].inserted_at = cache_now]
    /\ UNCHANGED <<cache_legacy, cache_agent, cache_table, cache_now, last_lookup,
                   key_vars, agg_vars, eval_vars, fan_vars, orch_vars, batch_vars,
                   race_vars, write_vars, main_vars, verdict_vars, parse_vars,
                   phase_vars>>

\* conn.commit(): the row of the task's transaction, if it has one, replaces
\* the row of its key.
Commit(t) ==
    /\ store_task[t].pc = "commit"
    /\ cache_table' = IF write_lock = t
                      THEN insert_or_replace(cache_table,
                                             CacheRow(cache_legacy, t, store_task[t]))
                      ELSE cache_table
    /\ write_lock' = IF write_lock = t THEN 0 ELSE write_lock
    /\ store_task' = [store_task EXCEPT
                         ![t].pc = "done",
                         ![t].outcome = IF write_lock = t THEN "written"
                                        ELSE "dropped"]
    /\ UNCHANGED <<cache_legacy, cache_agent, cache_now, last_lookup, key_vars,
                   agg_vars, eval_vars, fan_vars, orch_vars, batch_vars, race_vars,
                   write_vars, main_vars, verdict_vars, parse_vars, phase_vars>>

\* A statement of _store_cache raises (the database is locked, or any other
\* error): the except branch prints, and the task's transaction is rolled
\* back with its connection.
StoreRaises(t) ==
    /\ ~cache_legacy
    /\ store_task[t].pc \in {"create", "insert", "commit"}
    /\ write_lock' = IF write_lock = t THEN 0 ELSE write_lock
    /\ store_task' = [store_task EXCEPT ![t].pc = "done", ![t].outcome = "dropped"]
    /\ UNCHANGED <<cache_legacy, cache_agent, cache_table, cache_now, last_lookup,
                   key_vars, agg_vars, eval_vars, fan_vars, orch_vars, batch_vars,
                   race_vars, write_vars, main_vars, verdict_vars, parse_vars,
                   phase_vars>>

\* The INSERT of question_agent meets "database is locked" while another task
\* holds the write lock: sleep and try again, up to max_retries attempts, then
\* print, leave the loop and commit nothing.
LegacyLocked(t) ==
    /\ cache_legacy
    /\ store_task[t].pc = "insert"
    /\ write_lock \notin {0, t}
    /\ store_task' =
           [store_task EXCEPT
               ![t].attempt = @ + 1,
               ![t].pc = IF store_task[t].attempt < LegacyMaxRetries - 1
                         THEN "insert" ELSE "commit"]
    /\ UNCHANGED <<cache_legacy, cache_agent, cache_table, cache_now, write_lock,
                   last_lookup, key_vars, agg_vars, eval_vars, fan_vars, orch_vars,
                   batch_vars, race_vars, write_vars, main_vars, verdict_vars,
                   parse_vars, phase_vars>>

\* The INSERT of question_agent raises an sqlite3.OperationalError other than
\* "database is locked": print, leave the loop and commit nothing.
LegacyOperationalError(t) ==
    /\ cache_legacy
    /\ store_task[t].pc = "insert"
    /\ store_task' = [store_task EXCEPT ![t].attempt = @ + 1, ![t].pc = "commit"]
    /\ UNCHANGED <<cache_legacy, cache_agent, cache_table, cache_now, write_lock,
                   last_lookup, key_vars, agg_vars, eval_vars, fan_vars, orch_vars,
                   batch_vars, race_vars, write_vars, main_vars, verdict_vars,
                   parse_vars, phase_vars>>

(***************************************************************************)
(* Specifications                                                          *)
(***************************************************************************)
SpecKeyInit == KeyInit /\ AggIdle /\ EvalIdle /\ FanIdle /\ OrchIdle /\ BatchIdle /\ RaceIdle /\ WriteIdle
    /\ MainIdle
    /\ VerdictIdle
    /\ ParseIdle
    /\ PhaseIdle
    /\ CacheIdle

SpecKeyNext == MakeKeys

SpecKey == SpecKeyInit /\ [][SpecKeyNext]_vars

SpecAggInit == AggInit /\ KeyIdle /\ EvalIdle /\ FanIdle /\ OrchIdle /\ BatchIdle /\ RaceIdle /\ WriteIdle
    /\ MainIdle
    /\ VerdictIdle
    /\ ParseIdle
    /\ PhaseIdle
    /\ CacheIdle

SpecAggNext == Summarize

SpecAgg == SpecAggInit /\ [][SpecAggNext]_vars

SpecEvalInit == EvalInit /\ KeyIdle /\ AggIdle /\ FanIdle /\ OrchIdle /\ BatchIdle /\ RaceIdle /\ WriteIdle
    /\ MainIdle
    /\ VerdictIdle
    /\ ParseIdle
    /\ PhaseIdle
    /\ CacheIdle

SpecEvalNext == Tick \/ EvaluateQuestion \/ LegacyEvaluateQuestion

SpecEval == SpecEvalInit /\ [][SpecEvalNext]_vars

\* One fan-out over a database whose cache tables are empty, by
\* run_parallel_question_analysis (agent is the QuestionAgent it constructs)
\* or by main of the single-file implementation (agent is None).
SpecFanInit ==
    /\ FanInit
    /\ now = 0
    /\ agent \in {Some(FanAgent), None}
    /\ question_research = NoTable
    /\ question_analysis = NoTable
    /\ question_analyses_table = [exists |-> TRUE, rows |-> {}]
    /\ last_eval = None
    /\ n_evals = 0
    /\ n_ticks = 0
    /\ KeyIdle
    /\ AggIdle
    /\ OrchIdle
    /\ BatchIdle
    /\ RaceIdle
    /\ WriteIdle
    /\ MainIdle
    /\ VerdictIdle
    /\ ParseIdle
    /\ PhaseIdle
    /\ CacheIdle

SpecFanNext ==
    \/ QuestionTaskCompletes
    \/ LegacyQuestionTaskCompletes
    \/ QuestionTaskHangs
    \/ ReturnQuestionResults

SpecFan == SpecFanInit /\ [][SpecFanNext]_vars

\* Passes over projects, by either implementation, on one database, with the
\* clock advancing in between.
SpecOrchInit ==
    /\ OrchInit
    /\ now = 0
    /\ agent = None
    /\ question_research = NoTable
    /\ question_analysis = NoTable
    /\ question_analyses_table = [exists |-> TRUE, rows |-> {}]
    /\ last_eval = None
    /\ n_evals = 0
    /\ n_ticks = 0
    /\ KeyIdle
    /\ AggIdle
    /\ FanIdle
    /\ BatchIdle
    /\ RaceIdle
    /\ WriteIdle
    /\ MainIdle
    /\ VerdictIdle
    /\ ParseIdle
    /\ PhaseIdle
    /\ CacheIdle

SpecOrchNext == PassGap \/ ProcessSingleProject \/ LegacyProcessProject

SpecOrch == SpecOrchInit /\ [][SpecOrchNext]_vars

\* One run of main over the project slugs, on a database that holds recent
\* verdicts of some of the projects.
SpecBatchInit ==
    /\ BatchInit
    /\ \E stored \in SUBSET (1..NumBatchProjects) :
         final_summaries = {StoredVerdict(project_slugs[i]) : i \in stored}
    /\ project_research = {}
    /\ last_run = None
    /\ persisted_at = <<>>
    /\ n_runs = 0
    /\ EvalIdle
    /\ KeyIdle
    /\ AggIdle
    /\ FanIdle
    /\ RaceIdle
    /\ WriteIdle
    /\ MainIdle
    /\ VerdictIdle
    /\ ParseIdle
    /\ PhaseIdle
    /\ CacheIdle

SpecBatchNext ==
    \/ SubmitBatch
    \/ ProjectTaskCompletes
    \/ ProjectTaskHangs
    \/ ReturnBatch

SpecBatch == SpecBatchInit /\ [][SpecBatchNext]_vars

\* The research steps of concurrent question tasks on one QuestionAgent.
SpecRaceInit ==
    /\ RaceInit /\ KeyIdle /\ AggIdle /\ EvalIdle /\ FanIdle /\ OrchIdle /\ BatchIdle
    /\ WriteIdle
    /\ MainIdle
    /\ VerdictIdle
    /\ ParseIdle
    /\ PhaseIdle
    /\ CacheIdle

SpecRaceNext ==
    \/ EnableFunctionCalling
    \/ SetTrackerContext
    \/ ResearchCall
    \/ ResetFunctionCalling

SpecRace == SpecRaceInit /\ [][SpecRaceNext]_vars

\* Writes of the evaluators and of the DatabaseManager to a database that other
\* writers keep busy.
SpecWriteInit ==
    /\ WriteInit /\ KeyIdle /\ AggIdle /\ EvalIdle /\ FanIdle /\ OrchIdle /\ BatchIdle
    /\ RaceIdle
    /\ MainIdle
    /\ VerdictIdle
    /\ ParseIdle
    /\ PhaseIdle
    /\ CacheIdle

SpecWriteNext ==
    \/ LegacyCacheWrite
    \/ CacheStore
    \/ StoreCatalogData
    \/ StoreApiUsage

SpecWrite == SpecWriteInit /\ [][SpecWriteNext]_vars

\* A run of main of either implementation on an empty database file.
SpecMainInit ==
    /\ MainInit
    /\ OrchIdle
    /\ now = 0
    /\ agent = None
    /\ question_research = NoTable
    /\ question_analysis = NoTable
    /\ question_analyses_table = [exists |-> TRUE, rows |-> {}]
    /\ last_eval = None
    /\ n_evals = 0
    /\ n_ticks = 0
    /\ KeyIdle /\ AggIdle /\ FanIdle /\ BatchIdle /\ RaceIdle /\ WriteIdle
    /\ VerdictIdle
    /\ ParseIdle
    /\ PhaseIdle
    /\ CacheIdle

SpecMainNext ==
    \/ ValidateThreads
    \/ SetupEnvironment
    \/ FetchNearProjects
    \/ MainSubmitBatch
    \/ MainReturnBatch
    \/ LegacyLoadConfig
    \/ LegacyFetchProjects
    \/ LegacyProjectLoop

SpecMain == SpecMainInit /\ [][SpecMainNext]_vars

\* Passes of the project loop over the projects of the catalog, on a verdict
\* table that starts empty.
SpecVerdictInit ==
    /\ VerdictInit
    /\ final_summaries = {}
    /\ project_research = {}
    /\ last_run = None
    /\ persisted_at = <<>>
    /\ n_runs = 0
    /\ KeyIdle /\ AggIdle /\ EvalIdle /\ FanIdle /\ BatchIdle /\ RaceIdle /\ WriteIdle
    /\ MainIdle
    /\ ParseIdle
    /\ PhaseIdle
    /\ CacheIdle

SpecVerdictNext ==
    \/ BeginPass
    \/ StoreFinalSummary
    \/ CatalogUpdate

SpecVerdict == SpecVerdictInit /\ [][SpecVerdictNext]_vars

\* The two parsers on every response of up to MaxResponseLines lines.
SpecParseInit ==
    /\ ParseInit
    /\ KeyIdle /\ AggIdle /\ EvalIdle /\ FanIdle /\ OrchIdle /\ BatchIdle /\ RaceIdle
    /\ WriteIdle /\ MainIdle /\ VerdictIdle
    /\ PhaseIdle
    /\ CacheIdle

SpecParseNext ==
    \/ ParseAnalysisOutput
    \/ LegacyParse

SpecParse == SpecParseInit /\ [][SpecParseNext]_vars

\* Evaluations of the questions of one project by one QuestionAgent, on cache
\* tables that start absent.
SpecPhaseInit ==
    /\ PhaseInit
    /\ KeyIdle /\ AggIdle /\ EvalIdle /\ FanIdle /\ OrchIdle /\ BatchIdle /\ RaceIdle
    /\ WriteIdle /\ MainIdle /\ VerdictIdle /\ ParseIdle /\ CacheIdle

SpecPhaseNext ==
    \/ PhaseTick
    \/ PhaseEvaluate

SpecPhase == SpecPhaseInit /\ [][SpecPhaseNext]_vars

\* Lookups and concurrent stores on one cache table.
SpecCacheInit ==
    /\ CacheInit
    /\ KeyIdle /\ AggIdle /\ EvalIdle /\ FanIdle /\ OrchIdle /\ BatchIdle /\ RaceIdle
    /\ WriteIdle /\ MainIdle /\ VerdictIdle /\ ParseIdle /\ PhaseIdle

SpecCacheNext ==
    \/ CacheTick
    \/ CheckCache
    \/ \E t \in StoreTasks :
         \/ StartStore(t)
         \/ CreateTable(t)
         \/ InsertOrReplace(t)
         \/ Commit(t)
         \/ StoreRaises(t)
         \/ LegacyLocked(t)
         \/ LegacyOperationalError(t)

SpecCache == SpecCacheInit /\ [][SpecCacheNext]_vars

(***************************************************************************)
(* Properties                                                              *)
(***************************************************************************)

\* C1 (anti-contamination): every value a cache lookup returns while project B
\* is evaluated for question q was stored by an evaluation of the same project
\* B, the same question q and the same phase.
C1_AntiContamination ==
    last_eval # None =>
        LET e == Val(last_eval)
        IN  \A h \in e.hits :
                /\ h.stored_by.project_name = e.project_name
                /\ h.stored_by.question_id = e.question_id
                /\ h.stored_by.phase = h.phase

\* The part of C1 that QuestionAgent meets: its lookups return only what the
\* same project, question and phase stored.
AgentAntiContamination ==
    (last_eval # None /\ agent # None) =>
        LET e == Val(last_eval)
        IN  \A h \in e.hits :
                /\ h.stored_by.project_name = e.project_name
                /\ h.stored_by.question_id = e.question_id
                /\ h.stored_by.phase = h.phase

\* C2 (cache key isolation): for one operation and one question, two distinct
\* project identifiers never get the same key, from either key function of the
\* repository.
C2_KeyIsolation ==
    key_out # None =>
        LET a == Val(key_args)
            k == Val(key_out)
        IN  a.p1 # a.p2 => (k.agent1 # k.agent2 /\ k.legacy1 # k.legacy2)

\* The part of C2 that QuestionAgent._create_cache_key alone meets.
AgentKeyIsolation ==
    key_out # None =>
        LET a == Val(key_args)
            k == Val(key_out)
        IN  a.p1 # a.p2 => k.agent1 # k.agent2

\* The six scores of a list all of whose entries carry one, added up term by
\* term.
ListedTotal(l) ==
    l[1].score + l[2].score + l[3].score + l[4].score + l[5].score + l[6].score

AllScored(l) == \A i \in DOMAIN l : "score" \in DOMAIN l[i]

\* C4 (fan-out completeness): the list the fan-out returns has exactly six
\* entries, and its i-th entry carries question id i.
C4_FanOutCompleteness ==
    fan_out # None =>
        /\ Len(Val(fan_out)) = NumQuestions
        /\ \A i \in DOMAIN Val(fan_out) : Get(Val(fan_out)[i], "question_id", 0) = i

\* The part of C4 that the single-file implementation meets: every dict its
\* question_agent returns carries the question id.
LegacyFanOutCompleteness ==
    (fan_out # None /\ agent = None) =>
        /\ Len(Val(fan_out)) = NumQuestions
        /\ \A i \in DOMAIN Val(fan_out) : Get(Val(fan_out)[i], "question_id", 0) = i

\* The question tasks of the episode that raised or ran past the result timeout.
RaisedOrLate ==
    {q \in QuestionIds :
        futures[q].raised \/ futures[q].seconds > ResultTimeoutSeconds}

\* C5 (fan-out isolation): when exactly one of the six tasks raised or ran past
\* the timeout, the returned list has six entries and holds, once each, the
\* value each of the other five tasks returned.
C5_FanOutIsolation ==
    (fan_out # None /\ Cardinality(RaisedOrLate) = 1) =>
        /\ Len(Val(fan_out)) = NumQuestions
        /\ \A q \in QuestionIds \ RaisedOrLate :
               /\ futures[q].value # None
               /\ Cardinality({i \in DOMAIN Val(fan_out) :
                                   Val(fan_out)[i] = Val(futures[q].value)}) = 1

\* C5's case reached: one task raised, the fan-out returned, and the list holds
\* the synthetic record for that task and the other five tasks' own values.
C5_Witness ==
    /\ fan_out # None
    /\ \E q \in QuestionIds :
         /\ futures[q].raised
         /\ RaisedOrLate = {q}
         /\ Val(fan_out)[q] = SyntheticError(LegacyQuestionConfig(q))
         /\ \A p \in QuestionIds \ {q} : Val(fan_out)[p] = Val(futures[p].value)

\* C6 (per-task timeout): a task that ran past the 180-second bound is in the
\* returned list as a synthetic failed result (score 0, error "Timeout") for
\* its question id.
C6_PerTaskTimeout ==
    fan_out # None =>
        \A q \in QuestionIds :
            futures[q].seconds > ResultTimeoutSeconds =>
                \E i \in DOMAIN Val(fan_out) :
                    /\ Get(Val(fan_out)[i], "question_id", 0) = q
                    /\ Get(Val(fan_out)[i], "score", 1) = 0
                    /\ Get(Val(fan_out)[i], "error", "") = "Timeout"

\* What the loop does instead: no returned list ever holds a "Timeout" record,
\* and the fan-out does not return while a task has not finished.
NoTimeoutRecorded ==
    /\ \A i \in DOMAIN question_results :
           Get(question_results[i], "error", "") # "Timeout"
    /\ fan_out # None => \A q \in QuestionIds : futures[q].state = "finished"

\* C7 (score aggregation): for six results with scores in {-1, 0, +1} the
\* total is the sum of the scores, and the recommendation is the strong-candidate
\* tier iff total >= 4, the mixed-fit tier iff 0 <= total < 4, the decline
\* tier iff total < 0.
C7_ScoreAggregation ==
    (summary_result # None /\ AllScored(Val(summary_input))) =>
        LET t == ListedTotal(Val(summary_input))
            r == Val(summary_result)
        IN  /\ r.total_score = t
            /\ (r.recommendation = "Strong candidate; explore MoU/co-marketing") <=> (t >= 4)
            /\ (r.recommendation = "Mixed; negotiate scope") <=> (0 <= t /\ t < 4)
            /\ (r.recommendation = "Decline or redesign the collaboration") <=> (t < 0)

\* C7's boundary case reached: six scored results adding up to exactly 4,
\* summarised as a strong candidate.
C7_Witness ==
    /\ summary_result # None
    /\ AllScored(Val(summary_input))
    /\ ListedTotal(Val(summary_input)) = 4
    /\ Val(summary_result).total_score = 4
    /\ Val(summary_result).recommendation = "Strong candidate; explore MoU/co-marketing"

\* C8 (freshness of cache lookup): a lookup returns a stored value only if the
\* entry was written less than 24 hours before the lookup.
C8_CacheFreshness ==
    last_eval # None =>
        \A h \in Val(last_eval).hits : h.at - h.created_at < FreshnessHours

\* The part of C8 that QuestionAgent._check_cache meets: every value it returns
\* is less than 24 hours old.
AgentCacheFreshness ==
    (last_eval # None /\ agent # None) =>
        \A h \in Val(last_eval).hits : h.at - h.created_at < FreshnessHours

\* The most recent pass re-ran, without force_refresh, a project whose verdict
\* an earlier pass stored less than 24 hours before.
IsRerun ==
    /\ last_run # None
    /\ Val(last_run).persisted_before # None
    /\ Val(last_run).at - Val(Val(last_run).persisted_before) < SkipFreshnessHours
    /\ ~Val(last_run).args.force_refresh

\* The external calls and the row writes among the events of a pass.
CallsOf(r) ==
    {r.events[i] : i \in DOMAIN r.events} \cap {"catalog", "research", "question", "summary"}

WritesOf(r) ==
    {r.events[i] : i \in DOMAIN r.events}
        \cap {"store_research", "store_question", "store_verdict"}

C10_EvaluatorBoundary ==
    (last_eval # None /\ agent # None) =>
        LET e == Val(last_eval)
            r == Val(e.result)
        IN  /\ ~e.raised
            /\ e.result # None
            /\ (Get(r, "success", TRUE) = FALSE =>
                    /\ Get(r, "question_id", 0) = e.question_id
                    /\ Get(r, "score", 1) = 0
                    /\ Get(r, "confidence", "") = "Error"
                    /\ "error" \in DOMAIN r)

\* The failures of C10 that do carry the full record: the ones raised past the
\* two phases into analyze's own handler.
AnalyzeHandlerBoundary ==
    (last_eval # None /\ agent # None /\ "analysis" \in Val(last_eval).calls) =>
        LET e == Val(last_eval)
            r == Val(e.result)
        IN  (Get(r, "success", TRUE) = FALSE /\ Get(r, "confidence", "") = "Error") =>
                /\ Get(r, "question_id", 0) = e.question_id
                /\ Get(r, "score", 1) = 0
                /\ "error" \in DOMAIN r

\* The stage an event of a pass belongs to.
StageOf(event) ==
    CASE event = "catalog" -> 0
      [] event \in {"research", "store_research"} -> 1
      [] event \in {"question", "store_question", "settled"} -> 2
      [] event = "summary" -> 3
      [] event = "store_verdict" -> 4

\* The number of events of a kind among the first n events of a pass.
EventsBefore(events, n, kind) ==
    Cardinality({i \in 1..(n - 1) : events[i] = kind})

\* C11 (pipeline stage order): the events of a pass come in the order research,
\* question fan-out, summary, verdict store; the summary is asked for only
\* after all six questions are settled, the verdict is stored only after the
\* summary, and a pass that ends SKIPPED or FAILED makes no stage event.
C11_StageOrder ==
    last_run # None =>
        LET r == Val(last_run)
            ev == r.events
        IN  /\ \A i, j \in DOMAIN ev : i < j => StageOf(ev[i]) <= StageOf(ev[j])
            /\ \A i \in DOMAIN ev :
                   ev[i] = "summary" =>
                       /\ EventsBefore(ev, i, "settled") = NumQuestions
                       /\ EventsBefore(ev, i, "research") = 1
            /\ \A i \in DOMAIN ev :
                   ev[i] = "store_verdict" => EventsBefore(ev, i, "summary") = 1
            /\ r.outcome \in {"SKIPPED", "FAILED"} =>
                   \A i \in DOMAIN ev : StageOf(ev[i]) = 0

\* C11's case reached: a pass went through every stage and stored its verdict.
C11_Witness ==
    /\ last_run # None
    /\ Val(last_run).outcome = "PERSISTED"
    /\ Val(last_run).events[Len(Val(last_run).events)] = "store_verdict"
    /\ EventsBefore(Val(last_run).events, Len(Val(last_run).events), "settled")
           = NumQuestions

\* The number of events of a kind among the events of a pass.
EventCount(events, kind) ==
    Cardinality({i \in DOMAIN events : events[i] = kind})

\* A pass that found its project in the catalog, could use the database and
\* did not skip the project.
NonSkippedPass(r) ==
    /\ r.catalog_ok
    /\ r.db_ok
    /\ r.outcome # "SKIPPED"

\* What C12 asks of a non-skipped pass: one research call, its result stored,
\* and, unless only research was asked for, six question results collected.
ResearchedAndFannedOut(r) ==
    /\ EventCount(r.events, "research") = 1
    /\ EventCount(r.events, "store_research") = 1
    /\ ~r.args.research_only => EventCount(r.events, "settled") = NumQuestions

\* C12 (research failure never hard-stops): in every non-skipped pass the
\* research agent is called exactly once, its result is stored in
\* project_research whether it succeeded or not, and the pass goes on to the
\* question fan-out.
C12_ResearchNeverStops ==
    (last_run # None /\ NonSkippedPass(Val(last_run))) =>
        ResearchedAndFannedOut(Val(last_run))

\* The project loop of the single-file main does what C12 asks.
LegacyResearchNeverStops ==
    (last_run # None /\ Val(last_run).legacy /\ NonSkippedPass(Val(last_run))) =>
        ResearchedAndFannedOut(Val(last_run))

\* A pass that is asked for the whole pipeline and does not skip the project.
FullPass(r) ==
    /\ NonSkippedPass(r)
    /\ ~r.args.research_only
    /\ ~r.args.questions_only

\* The sum of the scores of a set of question rows.
RECURSIVE SumRowScores(_)
SumRowScores(rows) ==
    IF rows = {} THEN 0
    ELSE LET row == CHOOSE row \in rows : TRUE
         IN  row.score + SumRowScores(rows \ {row})

\* The tier a total score falls in.
TierOf(total_score) ==
    IF total_score >= StrongCandidateThreshold THEN "strong_candidate"
    ELSE IF total_score >= MixedFitThreshold THEN "mixed_fit"
    ELSE "decline"

\* A full pass whose synthesis call failed left a verdict of this pass in
\* final_summaries: success false, the total the sum of the question scores,
\* the recommendation the one of the total's tier.
FallbackVerdictStored(r) ==
    \E row \in final_summaries :
        /\ row.project_name = r.slug
        /\ row.updated_at = r.at
        /\ ~row.success
        /\ row.total_score =
               SumRowScores({q \in question_analyses_table.rows :
                                q.project_name = r.slug})
        /\ row.recommendation \in
               {RECOMMENDATIONS[TierOf(row.total_score)],
                LegacyRecommendation(row.total_score)}

\* C13 (numeric verdict survives synthesis failure): when the synthesis call
\* of a full pass fails, the verdict still carries the sum of the question
\* scores and the tier of that sum, is marked unsuccessful, and is stored.
C13_VerdictSurvivesSynthesisFailure ==
    (last_run # None /\ FullPass(Val(last_run)) /\ ~Val(last_run).summary_ok) =>
        FallbackVerdictStored(Val(last_run))

\* The project loop of the single-file main does what C13 asks.
LegacyVerdictSurvivesSynthesisFailure ==
    (/\ last_run # None
     /\ Val(last_run).legacy
     /\ FullPass(Val(last_run))
     /\ ~Val(last_run).summary_ok) =>
        FallbackVerdictStored(Val(last_run))

\* SummaryAgent.generate_final_summary does its part of C13: the verdict it
\* returns after a failed synthesis call carries the sum, the tier's
\* recommendation, the fallback narrative, success false and the error.
SummaryFallbackVerdict ==
    (summary_result # None /\ ~Val(summary_result).success) =>
        LET r == Val(summary_result)
        IN  /\ r.total_score = SumScores(Val(summary_input))
            /\ r.recommendation = RECOMMENDATIONS[TierOf(r.total_score)]
            /\ r.summary = "Summary generation failed"
            /\ "error" \in DOMAIN r

\* main has gone through every batch.
RunDone ==
    /\ threads > 0
    /\ BatchSlugs = {}
    /\ batch_num = Len(Batches(project_slugs, threads))

\* The projects processed so far whose task returned True.
Succeeded ==
    {i \in DOMAIN project_log :
        project_log[i] # None /\ Val(project_log[i]).outcome = "SKIPPED"}

\* C14 (batch resilience): a project whose catalog fetch fails or whose
\* analysis raises is counted as failed and nothing else changes: every
\* project of a batch that has returned was processed, and when main is
\* through, every project was processed, total_processed is their number and
\* successful_analyses is the number of those whose task returned True.
C14_BatchResilience ==
    threads > 0 =>
        /\ \A i \in DOMAIN project_log :
               (batch_num > 0 /\ i <= (batch_num - 1) * threads) => project_log[i] # None
        /\ RunDone =>
               /\ \A i \in DOMAIN project_log : project_log[i] # None
               /\ total_processed = NumBatchProjects
               /\ successful_analyses = Cardinality(Succeeded)

\* C14's case reached: the first project's catalog fetch failed, and the
\* second project, of the same batch, and the third, of the next batch, were
\* processed and counted as successful.
C14_Witness ==
    /\ RunDone
    /\ threads = 2
    /\ ~Val(project_log[1]).catalog_ok
    /\ Val(project_log[1]).outcome = "FAILED"
    /\ {2, 3} \subseteq Succeeded
    /\ Val(project_log[2]).batch = 1
    /\ Val(project_log[3]).batch = 2
    /\ successful_analyses = Cardinality(Succeeded)
    /\ total_processed = NumBatchProjects

\* C15 (per-project timeout): a project whose task ran past the 300-second
\* bound is marked failed, that is, not counted among the successful ones.
C15_PerProjectTimeout ==
    \A i \in DOMAIN project_log :
        (project_log[i] # None /\ Val(project_log[i]).seconds > ProjectTimeoutSeconds) =>
            ~Val(project_log[i]).counted

\* What the loop does instead: a project is counted by what its task returned,
\* however long it ran, and a batch does not return while one of its tasks has
\* not finished.
NoProjectTimeout ==
    /\ \A i \in DOMAIN project_log :
           project_log[i] # None =>
               (Val(project_log[i]).counted <=> Val(project_log[i]).outcome = "SKIPPED")
    /\ \A i \in DOMAIN project_log :
           (threads > 0 /\ i <= batch_num * threads /\ i \notin BatchSlugs) =>
               project_log[i] # None

WiredAgentNoSharedState ==
    (/\ race_agent # None
     /\ Val(race_agent) = [usage_tracker |-> "DatabaseManager", provider |-> "openai"]) =>
        interference = {}

\* The smaller of two numbers.
Min(a, b) == IF a < b THEN a ELSE b

\* The retry-on-busy policy: a write that finds the database locked is tried
\* again, up to three attempts in all, sleeping the base delay times the
\* number of the attempt that failed; the row is written unless all three
\* attempts found the lock.
RetriedOnBusy(w) ==
    /\ w.attempts = Min(w.busy + 1, LegacyMaxRetries)
    /\ Len(w.delays) = w.attempts - 1
    /\ \A k \in DOMAIN w.delays : w.delays[k] = LegacyRetryBackoffTenths * k
    /\ w.written <=> w.busy < LegacyMaxRetries

\* The evaluator returned the result it computed, with no error in it.
ReturnedComputed(w) ==
    /\ w.returned # None
    /\ Get(Val(w.returned), "score", 0) = 1
    /\ Get(Val(w.returned), "confidence", "") = "High"
    /\ "error" \notin DOMAIN Val(w.returned)

\* C17 (retry-on-busy for cache writes): a cache write that finds the database
\* locked is retried with a delay of the base delay times the attempt number,
\* three attempts at most, and when the last attempt fails the write is
\* dropped and the evaluator still returns the result it computed.
C17_RetryOnBusy ==
    (last_write # None /\ Val(last_write).path \in {"legacy_cache_store", "cache_store"}) =>
        /\ RetriedOnBusy(Val(last_write))
        /\ ReturnedComputed(Val(last_write))

\* question_agent of the single-file implementation does what C17 asks.
LegacyRetryOnBusy ==
    (last_write # None /\ Val(last_write).path = "legacy_cache_store") =>
        /\ RetriedOnBusy(Val(last_write))
        /\ ReturnedComputed(Val(last_write))

\* QuestionAgent does the second half of C17: whatever becomes of the cache
\* write, the evaluator returns the result it computed.
CacheStoreNeverPropagates ==
    (last_write # None /\ Val(last_write).path = "cache_store") =>
        ReturnedComputed(Val(last_write))

\* C18 (every write path retries on busy): a write that finds the database
\* locked once, on whatever path (cache store, catalog store, usage record),
\* is tried again and its row is written.
C18_EveryWriteRetries ==
    (last_write # None /\ Val(last_write).busy = 1) =>
        /\ Val(last_write).attempts > 1
        /\ Val(last_write).written

\* What the write paths of the modular implementation do instead: one attempt,
\* and the row is lost as soon as that attempt finds the lock.
SingleAttemptPaths ==
    (/\ last_write # None
     /\ Val(last_write).path \in {"cache_store", "catalog_store", "usage_record"}) =>
        /\ Val(last_write).attempts = 1
        /\ Val(last_write).written <=> Val(last_write).busy = 0

\* Whether an evaluation by this agent looks anything up: _check_cache returns
\* None before its SELECT when the agent holds no db_manager.
consults_cache(ag) == ag.db_manager

\* A phase whose value came from the cache made no call of its collaborator.
CacheHitSparesCall(e) ==
    \A h \in e.hits :
        /\ h.phase = "research" => "research" \notin e.calls
        /\ h.phase = "analysis" => "analysis" \notin e.calls
        /\ h.phase = "legacy" => e.calls = {}

\* C19 (evaluators consult the cache first): an evaluator looks its key up in
\* the cache store before it calls a collaborator, and a phase that finds a
\* fresh entry makes no call.
C19_CacheFirst ==
    (last_eval # None /\ agent # None) =>
        /\ consults_cache(Val(agent))
        /\ CacheHitSparesCall(Val(last_eval))

\* The evaluators that hold a database do what C19 asks: a QuestionAgent built
\* with a db_manager, and question_agent of the single-file implementation.
CacheFirstWithDatabase ==
    (last_eval # None /\ (agent # None => consults_cache(Val(agent)))) =>
        CacheHitSparesCall(Val(last_eval))

\* The agent run_parallel_question_analysis builds never has a cache hit.
WiredAgentNeverHits ==
    (last_eval # None /\ agent # None /\ ~consults_cache(Val(agent))) =>
        Val(last_eval).hits = {}

\* The first pass over a project, on a database no pass has written to, asked
\* for the whole pipeline, with research succeeding, the reasoning model
\* answering SCORE: +1 / CONFIDENCE: High to every question and the synthesis
\* succeeding.
AllPositiveFirstPass(r) ==
    /\ n_runs = 1
    /\ FullPass(r)
    /\ r.research_call = "ok"
    /\ r.analysis_call = "reply_pos"
    /\ r.summary_ok

\* The verdict and the six question results the scenario of C20 expects.
StrongVerdictStored(r) ==
    /\ \E row \in final_summaries :
           /\ row.project_name = r.slug
           /\ row.total_score = NumQuestions
           /\ TierOf(row.total_score) = "strong_candidate"
           /\ row.recommendation \in {RECOMMENDATIONS["strong_candidate"],
                                      LegacyRecommendation(NumQuestions)}
    /\ \A q \in QuestionIds :
           \E row \in question_analyses_table.rows :
               /\ row.project_name = r.slug
               /\ row.question_id = q
               /\ row.score = 1
               /\ row.confidence = "High"

\* C20 (end-to-end scenario): with successful research and a reasoning model
\* that answers SCORE: +1 / CONFIDENCE: High to every question, the pipeline
\* yields a verdict with total_score 6 and the strong-candidate recommendation,
\* and six question results with score +1 and confidence High.
C20_EndToEnd ==
    (last_run # None /\ AllPositiveFirstPass(Val(last_run))) =>
        StrongVerdictStored(Val(last_run))

\* The project loop of the single-file main yields what C20 expects.
LegacyEndToEnd ==
    (last_run # None /\ Val(last_run).legacy /\ AllPositiveFirstPass(Val(last_run))) =>
        StrongVerdictStored(Val(last_run))

\* A pass truncated after research: the research result was stored, and no
\* question evaluator ran, no summary was asked for, no verdict was written.
StoppedAfterResearch(r) ==
    /\ EventCount(r.events, "research") = 1
    /\ r.events[Len(r.events)] = "store_research"
    /\ \A i \in DOMAIN r.events : StageOf(r.events[i]) <= 1

\* A pass truncated after the questions: six question results were collected
\* after the research result was stored, and no summary was asked for and no
\* verdict was written.
StoppedAfterQuestions(r) ==
    /\ EventCount(r.events, "store_research") = 1
    /\ EventCount(r.events, "settled") = NumQuestions
    /\ r.events[Len(r.events)] = "settled"
    /\ \A i \in DOMAIN r.events : StageOf(r.events[i]) <= 2

\* C21 (operational truncations): a non-skipped pass under --research-only
\* stops once the research result is stored, and one under --questions-only
\* stops once the six question results are produced; neither asks for a
\* summary or writes a verdict.
C21_Truncations ==
    (last_run # None /\ NonSkippedPass(Val(last_run))) =>
        LET r == Val(last_run)
        IN  /\ r.args.research_only => StoppedAfterResearch(r)
            /\ r.args.questions_only => StoppedAfterQuestions(r)

\* The project loop of the single-file main does what C21 asks.
LegacyTruncations ==
    (last_run # None /\ Val(last_run).legacy /\ NonSkippedPass(Val(last_run))) =>
        LET r == Val(last_run)
        IN  /\ r.args.research_only => StoppedAfterResearch(r)
            /\ r.args.questions_only => StoppedAfterQuestions(r)

\* Neither implementation asks for a summary or writes a verdict in a pass
\* under --research-only or --questions-only.
TruncatedPassWritesNoVerdict ==
    (last_run # None /\ (Val(last_run).args.research_only
                         \/ Val(last_run).args.questions_only)) =>
        /\ EventCount(Val(last_run).events, "summary") = 0
        /\ EventCount(Val(last_run).events, "store_verdict") = 0

\* The project of a pass had a verdict stored less than 24 hours before the
\* pass.
RecentVerdict(r) ==
    /\ r.persisted_before # None
    /\ Val(r.persisted_before) > r.at - SkipFreshnessHours

\* A pass that started with the research stage: the first thing it did after
\* fetching the project was to call the research agent.
RunsFromResearch(r) ==
    /\ r.outcome # "SKIPPED"
    /\ Len(r.events) >= 2
    /\ r.events[2] = "research"

\* C22 (force refresh): under --force-refresh a project whose verdict was
\* stored less than 24 hours ago is not skipped, and its pass runs the
\* pipeline from the research stage.
C22_ForceRefresh ==
    (/\ last_run # None
     /\ Val(last_run).args.force_refresh
     /\ Val(last_run).catalog_ok
     /\ Val(last_run).db_ok
     /\ RecentVerdict(Val(last_run))) =>
        RunsFromResearch(Val(last_run))

\* The project loop of the single-file main does what C22 asks.
LegacyForceRefresh ==
    (/\ last_run # None
     /\ Val(last_run).legacy
     /\ Val(last_run).args.force_refresh
     /\ Val(last_run).catalog_ok
     /\ Val(last_run).db_ok
     /\ RecentVerdict(Val(last_run))) =>
        RunsFromResearch(Val(last_run))

\* The freshness check is bypassed in both implementations: no pass under
\* --force-refresh ends SKIPPED, and should_skip_project answers False under
\* force_refresh whatever final_summaries holds.
ForceRefreshNeverSkips ==
    /\ (last_run # None /\ Val(last_run).args.force_refresh) =>
           Val(last_run).outcome # "SKIPPED"
    /\ \A slug \in OrchProjects, db_ok \in BOOLEAN :
           ~should_skip_project(final_summaries, slug, TRUE, now, db_ok)

\* A forced pass of analyze_single_project over a project with a recent
\* verdict was not skipped.
ForcedPassOverRecentVerdict ==
    /\ last_run # None
    /\ ~Val(last_run).legacy
    /\ Val(last_run).args.force_refresh
    /\ RecentVerdict(Val(last_run))
    /\ should_skip_project(final_summaries, Val(last_run).slug, FALSE,
                           Val(last_run).at, TRUE)
    /\ Val(last_run).outcome # "SKIPPED"

\* The run found its credential or prompt.md missing.
ConfigurationError == ~main_config.api_key \/ ~main_config.prompt_md

\* C23 (fatal configuration errors halt first): a run that finds the
\* credential or prompt.md missing never fetches the project list, never
\* processes a project and writes no row to the research, cache or verdict
\* tables; it ends at the check.
C23_ConfigurationErrorsHaltFirst ==
    (main_pc # "idle" /\ ConfigurationError) =>
        /\ fetched_slugs = None
        /\ analysed = 0
        /\ in_flight = {}
        /\ NoRowWritten
        /\ main_pc \in {"validate_threads", "setup_environment", "load_config", "exit"}

\* C23's case reached: setup_environment ended a run that had a valid
\* --threads, because prompt.md was missing.
C23_Witness ==
    /\ main_pc = "exit"
    /\ ~main_legacy
    /\ main_config.api_key
    /\ ~main_config.prompt_md
    /\ main_config.catalog_ok
    /\ ~validate_threads(main_config.threads).exit
    /\ fetched_slugs = None

\* A run with nothing missing does reach its projects and write rows.
ConfiguredRunWritesRows ==
    /\ main_pc = "export"
    /\ main_legacy
    /\ analysed = NumMainProjects
    /\ Cardinality(final_summaries) = NumMainProjects

\* C24 (batch size cap): the projects processed concurrently in one batch
\* never exceed max_batch_size; a --threads above the cap is reduced to the
\* cap, and a --threads below 1 ends the run before any project is processed.
C24_BatchSizeCap ==
    /\ Cardinality(in_flight) <= BATCH_PROCESSING_CONFIG.max_batch_size
    /\ (~main_legacy /\ main_pc \notin {"idle", "validate_threads"}) =>
           /\ main_config.threads > BATCH_PROCESSING_CONFIG.max_batch_size =>
                  args_threads = BATCH_PROCESSING_CONFIG.max_batch_size
           /\ main_config.threads < 1 =>
                  /\ main_pc = "exit"
                  /\ fetched_slugs = None
                  /\ analysed = 0
                  /\ in_flight = {}
           /\ main_config.threads \in 1..BATCH_PROCESSING_CONFIG.max_batch_size =>
                  args_threads = main_config.threads

\* C24's case reached: --threads above the cap was asked for and a batch of
\* exactly max_batch_size projects is being processed.
C24_Witness ==
    /\ ~main_legacy
    /\ main_config.threads > BATCH_PROCESSING_CONFIG.max_batch_size
    /\ main_pc = "batches"
    /\ Cardinality(in_flight) = BATCH_PROCESSING_CONFIG.max_batch_size

\* A run asked for fewer than one thread ended at the validation.
ZeroThreadsExit ==
    /\ ~main_legacy
    /\ main_config.threads < 1
    /\ main_config.api_key /\ main_config.prompt_md /\ main_config.catalog_ok
    /\ main_pc = "exit"

\* The rows of the verdict table that belong to a project.
VerdictRowsOf(slug) == {row \in final_summaries : row.slug = slug}

\* C25 (single verdict per project): the verdict table holds at most one row
\* per project identifier, and the row of a project is the verdict of the
\* most recent completed pass over that project.
C25_SingleVerdictPerProject ==
    \A slug \in DOMAIN latest_verdict :
        /\ Cardinality(VerdictRowsOf(slug)) <= 1
        /\ latest_verdict[slug] # None =>
               VerdictRowsOf(slug) = {Val(latest_verdict[slug])}

\* What the table does guarantee: at most one row per display name, the row
\* of the most recent pass stored under that name.
SingleVerdictPerDisplayName ==
    /\ \A r1, r2 \in final_summaries : r1.project_name = r2.project_name => r1 = r2
    /\ \A row \in final_summaries :
           /\ latest_verdict[row.slug] # None
           /\ \A slug \in DOMAIN latest_verdict :
                  (/\ latest_verdict[slug] # None
                   /\ Val(latest_verdict[slug]).project_name = row.project_name) =>
                      Val(latest_verdict[slug]).updated_at <= row.updated_at

\* The lines of a response by their field, as the response format names them.
IsScoreLine(line) == StartsWith(Strip(line), ScorePrefix)

IsConfidenceLine(line) == StartsWith(Strip(line), ConfidencePrefix)

IsNarrativeLine(line) ==
    /\ Strip(line) # <<>>
    /\ ~StartsWith(Strip(line), ScorePrefix)
    /\ ~StartsWith(Strip(line), ConfidencePrefix)
    /\ ~StartsWith(Strip(line), AnalysisPrefix)

\* The score a SCORE line states: +1 or -1 when its value begins with that,
\* and 0 for the value 0 and for a value that is none of the three.
StatedScore(line) ==
    LET value == Strip(AfterFirst(Strip(line), ScorePrefix))
    IN  IF StartsWith(value, PlusOne) THEN 1
        ELSE IF StartsWith(value, MinusOne) THEN -1
        ELSE 0

\* The scores the SCORE lines of a response state.
StatedScores(content) ==
    {StatedScore(content[i]) : i \in {k \in DOMAIN content : IsScoreLine(content[k])}}

\* The score a parser must return for a response: 0 without a SCORE line, the
\* stated score when the SCORE lines state one.
ScoreNormalised(content, result) ==
    /\ result.score \in {-1, 0, 1}
    /\ StatedScores(content) = {} => result.score = 0
    /\ \A v \in {-1, 0, 1} : StatedScores(content) = {v} => result.score = v

\* C27 (parser score normalisation): the score a parser returns is one of -1,
\* 0, +1; a SCORE line stating +1 yields 1, one stating -1 yields -1, and a
\* missing SCORE line or a value that cannot be parsed yields 0.
C27_ScoreNormalisation ==
    parse_result # None =>
        ScoreNormalised(Val(parse_response).content, Val(parse_result))

\* QuestionAgent._parse_analysis_output does what C27 asks.
AgentScoreNormalisation ==
    (parse_result # None /\ ~Val(parse_response).legacy) =>
        ScoreNormalised(Val(parse_response).content, Val(parse_result))

\* Both parsers return a score in -1..1 and 0 without a SCORE line.
ScoreInRange ==
    parse_result # None =>
        /\ Val(parse_result).score \in {-1, 0, 1}
        /\ StatedScores(Val(parse_response).content) = {} => Val(parse_result).score = 0

\* The narrative lines of a response, each without its surrounding blanks.
NarrativeLines(content) ==
    LET kept == SelectSeq(content, IsNarrativeLine)
    IN  [i \in DOMAIN kept |-> Strip(kept[i])]

HasConfidenceLine(content) == \E i \in DOMAIN content : IsConfidenceLine(content[i])

\* C28 (parser robustness on missing CONFIDENCE): for a response with a SCORE
\* line and narrative lines but no CONFIDENCE line, _parse_analysis_output
\* returns confidence "Medium", the score the SCORE line states, and the
\* narrative lines as analysis; when a CONFIDENCE line is present the
\* confidence returned is one of Low, Medium, High.
C28_MissingConfidence ==
    (parse_result # None /\ ~Val(parse_response).legacy) =>
        LET content == Val(parse_response).content
            result == Val(parse_result)
        IN  /\ (/\ ~HasConfidenceLine(content)
                /\ Cardinality(StatedScores(content)) = 1
                /\ NarrativeLines(content) # <<>>) =>
                   /\ result.confidence = "Medium"
                   /\ StatedScores(content) = {result.score}
                   /\ result.analysis = NarrativeLines(content)
            /\ HasConfidenceLine(content) =>
                   result.confidence \in {"Low", "Medium", "High"}

\* C28's case reached: the response "SCORE: -1 (Strong No)" followed by a
\* narrative line, with no CONFIDENCE line, was parsed.
C28_Witness ==
    /\ parse_result # None
    /\ ~Val(parse_response).legacy
    /\ Val(parse_response).content = <<ScoreLineMinus, NarrativeLine>>
    /\ Val(parse_result).confidence = "Medium"
    /\ Val(parse_result).score = -1
    /\ Val(parse_result).analysis = <<Strip(NarrativeLine)>>

\* A text with nothing in it but blanks.
EmptyText(text) == \A i \in DOMAIN text : Strip(text[i]) = <<>>

\* C29 (parser empty-narrative fallback): for a response without narrative
\* lines _parse_analysis_output returns confidence Low and an analysis that
\* is not empty.
C29_EmptyNarrativeFallback ==
    (/\ parse_result # None
     /\ ~Val(parse_response).legacy
     /\ NarrativeLines(Val(parse_response).content) = <<>>) =>
        /\ Val(parse_result).confidence = "Low"
        /\ ~EmptyText(Val(parse_result).analysis)

\* What _parse_analysis_output does for a response without narrative lines:
\* the analysis is the whole response as it came and the confidence is what
\* the CONFIDENCE line gave, or the default.
RawResponseKept ==
    (/\ parse_result # None
     /\ ~Val(parse_response).legacy
     /\ NarrativeLines(Val(parse_response).content) = <<>>) =>
        /\ Val(parse_result).analysis = Val(parse_response).content
        /\ ~HasConfidenceLine(Val(parse_response).content) =>
               Val(parse_result).confidence = "Medium"

\* C26 (total score range): the total_score of a verdict produced from a
\* six-entry list, entries without a score included, is an integer in
\* -6..+6.
C26_TotalScoreRange ==
    summary_result # None =>
        /\ Len(Val(summary_input)) = NumQuestions
        /\ Val(summary_result).total_score \in (0 - NumQuestions)..NumQuestions

\* C26's case reached: a verdict was produced from a list with one degraded
\* entry, which carries no score, and five entries of score -1.
C26_Witness ==
    /\ summary_result # None
    /\ Cardinality({i \in DOMAIN Val(summary_input) :
                       "score" \notin DOMAIN Val(summary_input)[i]}) = 1
    /\ Val(summary_result).total_score = 1 - NumQuestions
    /\ ~Val(summary_result).success

\* The lists the fan-out returns, synthetic entries included, add up to a
\* total in -6..+6.
FanOutTotalInRange ==
    fan_out # None =>
        /\ Len(Val(fan_out)) = NumQuestions
        /\ \A synthesis_ok \in BOOLEAN :
               generate_final_summary(Val(fan_out), synthesis_ok).total_score
                   \in (0 - NumQuestions)..NumQuestions

\* A list with a synthetic entry was returned by the fan-out.
FanOutWithSyntheticEntry ==
    /\ fan_out # None
    /\ \E i \in DOMAIN Val(fan_out) : Get(Val(fan_out)[i], "error", "") = "exception"
    /\ SumScores(Val(fan_out)) = NumQuestions - 1

\* The row of the research cache that holds a result stored at a given time
\* for a project and question.
ResearchStored(table, project_name, question, result, at) ==
    /\ table.exists
    /\ \E row \in table.rows :
           /\ row.cache_key = create_cache_key(ResearchOperation(question.id),
                                               project_name, question.question)
           /\ JsonLoads(row.result_data) = result
           /\ row.created_at = at

\* What C30 asks of an agent for a project and question, in the current state
\* of the research cache and with the database working: a research phase that
\* finds no cached entry stores its result, failed or not, and after a failed
\* result was stored the same research phase, run again less than 24 hours
\* later, returns the stored result without calling the research model.
NegativeCaching(ag, project_name, id) ==
    \A research_call \in {"ok", "raise"}, later \in {0, FreshnessHours - 1} :
        LET question == QuestionConfig(id)
            env == [db_ok |-> TRUE, store_ok |-> TRUE, research_call |-> research_call,
                    analysis_call |-> "reply_pos"]
            first == conduct_question_research(ag, question_research, project_name,
                                               question, env, now)
            again == conduct_question_research(ag, first.table, project_name,
                                               question, env, now + later)
        IN  first.hits = {} =>
                /\ ResearchStored(first.table, project_name, question, first.result, now)
                /\ ~first.result.success =>
                       /\ again.calls = {}
                       /\ again.result = first.result

\* C30 (negative caching of research): the result of the research phase is
\* stored under the research cache key whether it succeeded or failed, and
\* once a failed result is stored a re-evaluation of the same project and
\* question within the freshness window makes no call to the research model.
C30_NegativeCaching ==
    (agent # None /\ last_eval # None) =>
        NegativeCaching(Val(agent), Val(last_eval).project_name,
                        Val(last_eval).question_id)

\* A QuestionAgent built with a db_manager does what C30 asks.
NegativeCachingWithDatabase ==
    (agent # None /\ last_eval # None /\ consults_cache(Val(agent))) =>
        NegativeCaching(Val(agent), Val(last_eval).project_name,
                        Val(last_eval).question_id)

\* The agent run_parallel_question_analysis builds stores no research result.
WiredAgentStoresNothing ==
    (agent # None /\ ~consults_cache(Val(agent))) =>
        /\ question_research = NoTable
        /\ question_analysis = NoTable

(***************************************************************************)
(* C31: a cache lookup always returns, and returns a miss when the table   *)
(* does not exist or the database reports an error; a lookup, whether it   *)
(* hits, misses or finds the entry expired, leaves the table as it was, so *)
(* an expired entry stays until a store replaces it; the table comes into  *)
(* being with the first store.                                             *)
(***************************************************************************)
\* The rows of the table a lookup saw that carry its key.
LookedUpRows(l) == {row \in l.table.rows : row.cache_key = l.cache_key}

\* What the most recent lookup returned: None without a table, on a database
\* error and when no row of its key is younger than the freshness window, the
\* stored dict otherwise.
LookupTotal ==
    last_lookup # None =>
        LET l == Val(last_lookup)
            fresh == {row \in LookedUpRows(l) :
                          l.at - row.created_at < FreshnessHours}
        IN  /\ (~l.table.exists \/ ~l.db_ok) => l.result = None
            /\ fresh = {} => l.result = None
            /\ l.result # None =>
                   \E row \in fresh : Val(l.result) = JsonLoads(row.result_data)

\* No row without a table, and a task that has written left a table behind.
TableSinceFirstWrite ==
    /\ ~cache_table.exists => cache_table.rows = {}
    /\ \A t \in StoreTasks :
           store_task[t].outcome = "written" => cache_table.exists

\* A step that is a lookup changes nothing of the table.
LookupReadOnly ==
    last_lookup' # last_lookup => cache_table' = cache_table

\* A row leaves the table only when a store commits a row of the same key.
RowsStayUntilOverwritten ==
    \A row \in cache_table.rows :
        \/ row \in cache_table'.rows
        \/ \E t \in StoreTasks :
               /\ store_task[t].pc = "commit"
               /\ store_task'[t].outcome = "written"
               /\ CacheKeyOf(cache_legacy, store_task[t].question_id) = row.cache_key

\* The table appears only in a store, at its CREATE TABLE IF NOT EXISTS.
CreatedByStore ==
    (~cache_table.exists /\ cache_table'.exists) =>
        \E t \in StoreTasks :
            /\ store_task[t].pc = "create"
            /\ store_task'[t].pc = "insert"

C31_LookupTotalReadOnly ==
    /\ [](LookupTotal /\ TableSinceFirstWrite)
    /\ [][LookupReadOnly /\ RowsStayUntilOverwritten /\ CreatedByStore]_vars

\* A lookup found its entry expired, returned a miss, and the entry is still
\* in the table.
C31_Witness ==
    /\ last_lookup # None
    /\ Val(last_lookup).db_ok
    /\ Val(last_lookup).result = None
    /\ \E row \in cache_table.rows :
           /\ row.cache_key = Val(last_lookup).cache_key
           /\ row \in Val(last_lookup).table.rows
           /\ Val(last_lookup).at - row.created_at >= FreshnessHours

\* A lookup answered from the table.
LookupHit ==
    /\ last_lookup # None
    /\ Val(last_lookup).result # None

(***************************************************************************)
(* C32: store is an upsert.  After a store of v1 under key k and then a    *)
(* store of v2 under k the table holds exactly one entry for k, with v2    *)
(* and the time of the second store; when tasks store under one key        *)
(* concurrently the entry left for k is, whole, the one of one of them.    *)
(***************************************************************************)
\* No store is under way.
Quiet == \A t \in StoreTasks : store_task[t].pc \in {"idle", "done"}

\* The tasks that have stored under the key of question id.
TasksOf(id) ==
    {t \in StoreTasks : store_task[t].pc = "done" /\ store_task[t].question_id = id}

EntriesOf(id) ==
    {row \in cache_table.rows : row.cache_key = CacheKeyOf(cache_legacy, id)}

\* t2 entered its store after t1 had returned from its own, and after every
\* other store under the key.
StoredAfter(t1, t2) ==
    /\ t1 # t2
    /\ store_task[t1].question_id = store_task[t2].question_id
    /\ TasksOf(store_task[t2].question_id) \ {t2} \subseteq store_task[t2].started_after
    /\ t1 \in store_task[t2].started_after

ConcurrentStoresWritten ==
    /\ Quiet
    /\ \E t1, t2 \in StoreTasks :
           /\ t1 # t2
           /\ store_task[t1].question_id = store_task[t2].question_id
           /\ t1 \notin store_task[t2].started_after
           /\ t2 \notin store_task[t1].started_after
           /\ store_task[t1].outcome = "written"
           /\ store_task[t2].outcome = "written"

FreshResearchFailureReturned ==
    /\ last_phase # None
    /\ ~Val(last_phase).research.success
    /\ ~Val(last_phase).research_hit
    /\ "research" \in Val(last_phase).calls
    /\ Val(last_phase).env.analysis_call = "reply_pos"

(***************************************************************************)
(* C34: failed analyses are never cached.  Every entry of the analysis     *)
(* cache has success true, and after an evaluation whose analysis phase    *)
(* failed the next evaluation of the same project and question calls the   *)
(* reasoning model again.                                                  *)
(***************************************************************************)
AnalysisEntriesSucceeded ==
    \A row \in phase_analysis.rows : JsonLoads(row.result_data).success

\* The evaluation before the most recent one was of the same project and
\* question and its analysis phase failed.
AfterFailedAnalysis ==
    /\ last_phase # None
    /\ prev_phase # None
    /\ Val(prev_phase).analysis_failed
    /\ Val(prev_phase).project_name = Val(last_phase).project_name
    /\ Val(prev_phase).question_id = Val(last_phase).question_id

ReachedReasoningCall ==
    /\ Val(last_phase).analysis # None
    /\ ~Val(Val(last_phase).analysis).hit
    /\ ~Val(Val(last_phase).analysis).raised
    /\ ~SetContextRaises(Val(phase_agent))

\* An evaluation whose analysis phase failed leaves the analysis cache as it
\* was.
FailedAnalysisStoresNothing ==
    (last_phase' # last_phase /\ Val(last_phase').summary.analysis_failed)
        => phase_analysis' = phase_analysis

AnsweredFromEarlierEntry ==
    /\ AfterFailedAnalysis
    /\ Val(last_phase).analysis # None
    /\ Val(Val(last_phase).analysis).hit

(***************************************************************************)
(* C35: whatever becomes of the cache write (carried out, refused by a     *)
(* busy database, failed on another error, or skipped for want of a        *)
(* db_manager), the research phase and the analysis phase return what they *)
(* return when the write is carried out.                                   *)
(***************************************************************************)
\* The agent with a db_manager, and the environment in which the database
\* takes the write.
WithStore(ag) == [ag EXCEPT !.db_manager = TRUE]

WriteCarriedOut(env) == [env EXCEPT !.store_ok = TRUE, !.db_ok = TRUE]

C35_CacheWriteFailureKeepsResult ==
    last_phase # None =>
        LET e == Val(last_phase)
            ag == WithStore(Val(phase_agent))
            env == WriteCarriedOut(e.env)
            question == QuestionConfig(e.question_id)
        IN  /\ ~e.research_hit =>
                   e.research = conduct_question_research(ag, NoTable, e.project_name,
                                                          question, env, e.at).result
            /\ (e.analysis # None /\ ~Val(e.analysis).hit) =>
                   LET a == conduct_question_analysis(ag, NoTable, e.project_name,
                                                      question, env, e.at)
                   IN  /\ Val(e.analysis).result = a.result
                       /\ Val(e.analysis).raised = a.raised
            /\ (~e.research_hit /\ (e.analysis = None \/ ~Val(e.analysis).hit)) =>
                   e.result = analyze(ag, NoTable, NoTable, e.project_name, question,
                                      env, e.at).result

\* Both phases computed their results with a db_manager, both cache writes
\* failed, and the evaluation returned the analysis.
C35_Witness ==
    /\ last_phase # None
    /\ Val(phase_agent).db_manager
    /\ ~Val(last_phase).env.store_ok
    /\ Val(last_phase).calls = {"research", "analysis"}
    /\ Val(last_phase).result.success
    /\ phase_research.rows = {}
    /\ phase_analysis.rows = {}

\* The research phase of an agent without a db_manager returned its result.
ResultWithoutStore ==
    /\ last_phase # None
    /\ ~Val(phase_agent).db_manager
    /\ ~Val(last_phase).research.success
    /\ Val(last_phase).result = Val(last_phase).research

(***************************************************************************)
(* C36: the skip check fails open.  A pass is skipped only when            *)
(* force_refresh is false and a verdict of the project less than 24 hours  *)
(* old is stored; when there is no such verdict or the database raises at  *)
(* the check, the pass is not skipped and the project is analysed.         *)
(***************************************************************************)
C36_SkipFailsOpen ==
    (last_run # None /\ Val(last_run).catalog_ok) =>
        LET r == Val(last_run)
        IN  /\ r.outcome = "SKIPPED" =>
                   (~r.args.force_refresh /\ RecentVerdict(r))
            /\ (~RecentVerdict(r) \/ ~r.db_ok) => RunsFromResearch(r)

\* What should_skip_project returns, on every verdict table reached.
SkipCheckReturnsFalseOnError ==
    \A slug \in OrchProjects, force_refresh \in BOOLEAN, db_ok \in BOOLEAN :
        should_skip_project(final_summaries, slug, force_refresh, now, db_ok) <=>
            /\ ~force_refresh
            /\ db_ok
            /\ \E row \in final_summaries :
                   /\ row.project_name = slug
                   /\ now - row.updated_at < SkipFreshnessHours

\* The project loop of the single-file main while the database answers.
LegacySkipFailsOpen ==
    (last_run # None /\ Val(last_run).legacy /\ Val(last_run).catalog_ok
         /\ Val(last_run).db_ok) =>
        LET r == Val(last_run)
        IN  /\ r.outcome = "SKIPPED" <=> (~r.args.force_refresh /\ RecentVerdict(r))
            /\ r.outcome # "SKIPPED" => RunsFromResearch(r)

\* No pass is skipped while the database raises.
NeverSkippedOnError ==
    (last_run # None /\ ~Val(last_run).db_ok) => Val(last_run).outcome # "SKIPPED"

(***************************************************************************)
(* C37: the skip check ignores the success flag of the verdict.  A verdict *)
(* stored with success false after a failed synthesis carries the time of  *)
(* its pass, so a pass over the project less than 24 hours later without   *)
(* force_refresh is skipped and does not run the synthesis again.          *)
(***************************************************************************)
\* The verdict table holds a verdict of the project with success false that
\* is less than 24 hours old.
RecentFailedVerdict(slug) ==
    \E row \in final_summaries :
        /\ row.project_name = slug
        /\ ~row.success
        /\ now - row.updated_at < SkipFreshnessHours

\* A pass without force_refresh whose catalog fetch succeeds and whose skip
\* check reads the table, over a project with such a verdict: it is skipped,
\* runs no synthesis and leaves the verdict as it is.
SkippedOverFailedVerdict ==
    (/\ last_run' # last_run
     /\ ~Val(last_run').args.force_refresh
     /\ Val(last_run').catalog_ok
     /\ Val(last_run').db_ok
     /\ RecentFailedVerdict(Val(last_run').slug)) =>
        /\ Val(last_run').outcome = "SKIPPED"
        /\ EventCount(Val(last_run').events, "summary") = 0
        /\ final_summaries' = final_summaries

\* A verdict with success false carries the time of the pass that stored it.
FailedVerdictTimestamped ==
    \A slug \in OrchProjects :
        \A row \in final_summaries :
            (row.project_name = slug /\ ~row.success) =>
                /\ persisted_at[slug] # None
                /\ row.updated_at = Val(persisted_at[slug])

Truncated(r) == r.args.research_only \/ r.args.questions_only

\* The step is a full pass without force_refresh that follows a truncated
\* pass over the project, no full pass having stored a verdict before; the
\* catalog fetch succeeds and the database answers.
FullPassAfterTruncated ==
    /\ last_run # None
    /\ last_run' # last_run
    /\ Truncated(Val(last_run))
    /\ Val(last_run).slug = Val(last_run').slug
    /\ ~Truncated(Val(last_run'))
    /\ ~Val(last_run').args.force_refresh
    /\ Val(last_run').catalog_ok
    /\ Val(last_run').db_ok
    /\ Val(last_run').persisted_before = None

NoVerdictOf(slug) == \A row \in final_summaries : row.project_name # slug

C38_TruncatedRunsNeverSkip ==
    [][FullPassAfterTruncated =>
           /\ NoVerdictOf(Val(last_run').slug)
           /\ Val(last_run').outcome # "SKIPPED"
           /\ RunsFromResearch(Val(last_run'))]_vars

\* The same for the project loop of the single-file main.
LegacyTruncatedRunsNeverSkip ==
    [][(FullPassAfterTruncated /\ Val(last_run').legacy) =>
           /\ NoVerdictOf(Val(last_run').slug)
           /\ Val(last_run').outcome # "SKIPPED"
           /\ RunsFromResearch(Val(last_run'))]_vars

\* In both implementations the full pass is not skipped.
FullPassAfterTruncatedNotSkipped ==
    [][FullPassAfterTruncated =>
           /\ NoVerdictOf(Val(last_run').slug)
           /\ Val(last_run').outcome # "SKIPPED"]_vars

(***************************************************************************)
(* C39: the batches partition the project list and run one after another.  *)
(* Every fetched slug is submitted in exactly one batch, a batch has at    *)
(* most batch-size projects, no project of a batch starts before every     *)
(* project of the batch before it has settled, and when the run is over    *)
(* total_processed is the number of slugs and successful_analyses is at    *)
(* most total_processed.                                                   *)
(***************************************************************************)
\* The batches one after another, as one list.
RECURSIVE Flatten(_)
Flatten(batches) ==
    IF Len(batches) = 0 THEN <<>>
    ELSE batches[1] \o Flatten(Tail(batches))

\* The number of the batch that holds position i of the project list.
BatchOf(i) == ((i - 1) \div threads) + 1

C39_BatchesPartition ==
    threads > 0 =>
        LET batches == Batches(project_slugs, threads)
        IN  /\ Flatten(batches) = project_slugs
            /\ \A b \in DOMAIN batches :
                   Len(batches[b]) >= 1 /\ Len(batches[b]) <= threads
            /\ BatchSlugs # {} =>
                   /\ BatchSlugs = {i \in 1..NumBatchProjects : BatchOf(i) = batch_num}
                   /\ [k \in 1..Cardinality(BatchSlugs) |->
                           project_slugs[(batch_num - 1) * threads + k]]
                          = batches[batch_num]
                   /\ \A j \in 1..NumBatchProjects :
                          BatchOf(j) < batch_num =>
                              /\ project_log[j] # None
                              /\ j \notin BatchSlugs
            /\ \A i \in 1..NumBatchProjects :
                   project_log[i] # None =>
                       /\ Val(project_log[i]).batch = BatchOf(i)
                       /\ BatchOf(i) <= batch_num
            /\ successful_analyses <= total_processed
            /\ RunDone => total_processed = Len(project_slugs)

\* A run of two batches is over: the first two projects went through the
\* first batch, the third through the second, and not every project succeeded.
C39_Witness ==
    /\ RunDone
    /\ threads = 2
    /\ batch_num = 2
    /\ Val(project_log[1]).batch = 1
    /\ Val(project_log[2]).batch = 1
    /\ Val(project_log[NumBatchProjects]).batch = 2
    /\ total_processed = NumBatchProjects
    /\ successful_analyses < total_processed

\* The second batch is in progress.
SecondBatchRunning ==
    /\ batch_num = 2
    /\ BatchSlugs # {}
    /\ \E i \in BatchSlugs : project_futures[i].state = "running"

====
